---- MODULE Spec2Model ----
(***************************************************************************)
(* Model of the wire codecs of gocloak's models.go: the StringOrArray      *)
(* flexible scalar, and the projection of option records to                *)
(* map[string]string (GetQueryParams and the FormData methods).            *)
(*                                                                         *)
(* Wire payloads are sequences of one-character strings (bytes).  Go       *)
(* strings are sequences of the same characters.  encoding/json is         *)
(* modelled by what it does on these bytes: Marshal writes quotes,         *)
(* escapes, brackets and commas; Unmarshal scans and validates the bytes   *)
(* and stores into the destination by JSON kind.  The byte alphabet has    *)
(* no \uXXXX escapes and no bytes outside ASCII.                           *)
(***************************************************************************)
EXTENDS Integers, Sequences, FiniteSets, TLC

VARIABLES
    soa,      \* the StringOrArray value the caller holds (receiver of both methods)
    data,     \* the wire payload last produced by MarshalJSON or handed to UnmarshalJSON
    origin,   \* the StringOrArray value that data was marshalled from, NoOrigin for a received payload
    err,      \* the error the last method call returned
    op,       \* the last step taken on the scalar
    rec,      \* the option record the caller holds
    res,      \* the mapping the last projection returned
    perr,     \* the error the last projection returned
    pop,      \* the last step taken on the record
    order,    \* the key order of the last range over res
    enc,      \* the bytes the last GetGroupsParams.MarshalJSON returned
    pol,      \* the kind-specific fields of the policy the caller holds
    cfg,      \* the Config of that policy
    kop,      \* the last step taken on the policy
    es,       \* the EnforcedString value the caller holds
    own,      \* the option record as the caller's own assignments alone have made it
    qcfg,     \* Config as seen through a second policy: nil, or the same map as cfg
    pc,       \* for each of two goroutines calling FormData, the statement it is at
    ret       \* for each of the two goroutines, the mapping its call returned

soaVars == <<soa, data, origin, err, op, es>>
projVars == <<rec, res, perr, pop, order, enc, own>>
polVars == <<pol, cfg, kop, qcfg>>
concVars == <<pc, ret>>
vars == <<soa, data, origin, err, op, rec, res, perr, pop, order, enc, pol, cfg, kop, es, own, qcfg,
          pc, ret>>

-----------------------------------------------------------------------------
(* Bounds *)

MaxStrLen == 1
MaxSeqLen == 2

-----------------------------------------------------------------------------
(* Helpers on sequences *)

Range(f) == {f[i] : i \in DOMAIN f}

\* the concatenation of a sequence of sequences, by halves
RECURSIVE Flatten(_)
Flatten(ss) ==
    IF ss = <<>> THEN <<>>
    ELSE IF Len(ss) = 1 THEN ss[1]
    ELSE Flatten(SubSeq(ss, 1, Len(ss) \div 2)) \o Flatten(SubSeq(ss, Len(ss) \div 2 + 1, Len(ss)))

SeqsUpTo(S, n) == UNION {[1..k -> S] : k \in 0..n}

HasPrefix(d, i, p) ==
    /\ i + Len(p) - 1 <= Len(d)
    /\ \A k \in 1..Len(p) : d[i + k - 1] = p[k]

-----------------------------------------------------------------------------
(* Go values *)

\* the characters Go strings are drawn from: a bracket, a quote and a backslash
TextChars == {"[", "\"", "\\"}

Texts == SeqsUpTo(TextChars, MaxStrLen)

\* a nil slice, as opposed to an empty one
NilSlice == [isNil |-> TRUE, elems |-> <<>>]
Slice(ss) == [isNil |-> FALSE, elems |-> ss]

SliceValues == {NilSlice} \cup {Slice(ss) : ss \in SeqsUpTo(Texts, MaxSeqLen)}

NoErr == "nil"
SyntaxError == "SyntaxError"
UnmarshalTypeError == "UnmarshalTypeError"

-----------------------------------------------------------------------------
(* encoding/json: Marshal *)

\* the escape json.Marshal writes for one character of a string
EscapeChar(c) ==
    CASE c = "\"" -> <<"\\", "\"">>
      [] c = "\\" -> <<"\\", "\\">>
      [] c = "\n" -> <<"\\", "n">>
      [] c = "\r" -> <<"\\", "r">>
      [] c = "\t" -> <<"\\", "t">>
      [] OTHER    -> <<c>>

\* json.Marshal(string)
MarshalString(s) ==
    <<"\"">> \o Flatten([i \in 1..Len(s) |-> EscapeChar(s[i])]) \o <<"\"">>

RECURSIVE JoinComma(_)
JoinComma(parts) ==
    IF parts = <<>> THEN <<>>
    ELSE IF Len(parts) = 1 THEN parts[1]
    ELSE parts[1] \o <<",">> \o JoinComma(Tail(parts))

\* json.Marshal([]string): null for a nil slice, else the array of its elements
MarshalStringSlice(v) ==
    IF v.isNil THEN <<"n", "u", "l", "l">>
    ELSE <<"[">> \o JoinComma([i \in 1..Len(v.elems) |-> MarshalString(v.elems[i])]) \o <<"]">>

-----------------------------------------------------------------------------
(* encoding/json: the scanner *)

JVal(k, s, it, ks) == [kind |-> k, str |-> s, items |-> it, keys |-> ks]
JString(s) == JVal("string", s, <<>>, <<>>)
JNumber(s) == JVal("number", s, <<>>, <<>>)
JArray(it) == JVal("array", <<>>, it, <<>>)
JObject(ks, it) == JVal("object", <<>>, it, ks)
JNull == JVal("null", <<>>, <<>>, <<>>)
JBool(b) == JVal(IF b THEN "true" ELSE "false", <<>>, <<>>, <<>>)

Bad == [ok |-> FALSE, v |-> JNull, next |-> 0]
Good(v, n) == [ok |-> TRUE, v |-> v, next |-> n]

Digits == {"0", "1", "2", "3", "4", "5", "6", "7", "8", "9"}
IsSpace(c) == c \in {" ", "\t", "\r", "\n"}

RECURSIVE SkipSpace(_, _)
SkipSpace(d, i) == IF i <= Len(d) /\ IsSpace(d[i]) THEN SkipSpace(d, i + 1) ELSE i

\* the character a backslash escape stands for
Unescape(c) ==
    CASE c = "n" -> "\n"
      [] c = "r" -> "\r"
      [] c = "t" -> "\t"
      [] OTHER   -> c

\* the first of the backslashes that run up to the byte before p, p when there is none;
\* i is the first byte of the string literal's content
RunStart(d, i, p) ==
    CHOOSE k \in i..p :
        /\ \A m \in k..(p - 1) : d[m] = "\\"
        /\ (k = i \/ d[k - 1] # "\\")

\* the byte at p follows a backslash that starts an escape
Escaped(d, i, p) ==
    IF p = i \/ d[p - 1] # "\\" THEN FALSE ELSE (p - RunStart(d, i, p)) % 2 = 1

\* the byte at p is a backslash that starts an escape
EscapeStart(d, i, p) == d[p] = "\\" /\ ~Escaped(d, i, p)

\* the closing quotes a string literal may end at: the first one is where it ends
ClosingQuotes(d, i) == {p \in i..Len(d) : d[p] = "\"" /\ ~Escaped(d, i, p)}

Least(S) == CHOOSE x \in S : \A y \in S : x <= y

\* the content bytes i..(q - 1) of a string literal are well formed: every escape is a
\* known one, and no control character is unescaped
ContentValid(d, i, q) ==
    \A p \in i..(q - 1) :
        IF Escaped(d, i, p) THEN d[p] \in {"\"", "\\", "/", "n", "r", "t"}
        ELSE d[p] \notin {"\t", "\r", "\n"}

\* the string the content bytes i..(q - 1) stand for: the backslash of each escape is
\* dropped, the byte after it is replaced by the character it stands for
ContentAt(d, i, ps) ==
    [k \in 1..Len(ps) |-> IF Escaped(d, i, ps[k]) THEN Unescape(d[ps[k]]) ELSE d[ps[k]]]

Content(d, i, q) ==
    ContentAt(d, i, SelectSeq([k \in 1..(q - i) |-> i + k - 1], LAMBDA p : ~EscapeStart(d, i, p)))

StringUpTo(d, i, q) ==
    IF ContentValid(d, i, q) THEN Good(JString(Content(d, i, q)), q + 1) ELSE Bad

\* the string literal whose opening quote is at i - 1, qs the quotes that may close it
StringFrom(d, i, qs) ==
    IF qs = {} THEN Bad ELSE StringUpTo(d, i, Least(qs))

ScanString(d, i) == StringFrom(d, i, ClosingQuotes(d, i))

RECURSIVE SkipDigits(_, _)
SkipDigits(d, i) == IF i <= Len(d) /\ d[i] \in Digits THEN SkipDigits(d, i + 1) ELSE i

\* the end j of a run of digits starting at i, 0 when the run is empty
DigitRun(i, j) == IF j > i THEN j ELSE 0

\* the number literal starting at i: -? (0 | [1-9][0-9]*) (. [0-9]+)? ([eE] [+-]? [0-9]+)?
\* each part gives the index after it, 0 when the literal is malformed
NumberInt(d, a) ==
    IF a > Len(d) \/ d[a] \notin Digits THEN 0
    ELSE IF d[a] = "0" THEN a + 1
    ELSE SkipDigits(d, a)

NumberFrac(d, b) ==
    IF b = 0 THEN 0
    ELSE IF b <= Len(d) /\ d[b] = "." THEN DigitRun(b + 1, SkipDigits(d, b + 1))
    ELSE b

ExpDigits(d, s) == DigitRun(s, SkipDigits(d, s))

NumberExp(d, c) ==
    IF c = 0 THEN 0
    ELSE IF c <= Len(d) /\ d[c] \in {"e", "E"}
         THEN ExpDigits(d, IF c + 1 <= Len(d) /\ d[c + 1] \in {"+", "-"} THEN c + 2 ELSE c + 1)
    ELSE c

NumberLiteral(d, i, e) == IF e = 0 THEN Bad ELSE Good(JNumber(SubSeq(d, i, e - 1)), e)

ScanNumber(d, i) ==
    NumberLiteral(d, i, NumberExp(d, NumberFrac(d, NumberInt(d, IF d[i] = "-" THEN i + 1 ELSE i))))

RECURSIVE ScanValue(_, _)
RECURSIVE ValueAt(_, _)
RECURSIVE ScanItems(_, _, _)
RECURSIVE ItemsNext(_, _, _)
RECURSIVE ItemsSep(_, _, _, _)
RECURSIVE ScanMembers(_, _, _, _)
RECURSIVE MembersKey(_, _, _, _)
RECURSIVE MembersColon(_, _, _, _)
RECURSIVE MembersValue(_, _, _, _, _)
RECURSIVE MembersNext(_, _, _, _, _)
RECURSIVE MembersSep(_, _, _, _, _, _)

\* the JSON value starting at or after i
ScanValue(d, i) == ValueAt(d, SkipSpace(d, i))

\* the JSON value starting at i, a byte that is no space
ValueAt(d, i) ==
    IF i > Len(d) THEN Bad
    ELSE IF d[i] = "\"" THEN ScanString(d, i + 1)
    ELSE IF d[i] = "[" THEN ScanItems(d, i + 1, <<>>)
    ELSE IF d[i] = "{" THEN ScanMembers(d, i + 1, <<>>, <<>>)
    ELSE IF d[i] = "-" \/ d[i] \in Digits THEN ScanNumber(d, i)
    ELSE IF HasPrefix(d, i, <<"t", "r", "u", "e">>) THEN Good(JBool(TRUE), i + 4)
    ELSE IF HasPrefix(d, i, <<"f", "a", "l", "s", "e">>) THEN Good(JBool(FALSE), i + 5)
    ELSE IF HasPrefix(d, i, <<"n", "u", "l", "l">>) THEN Good(JNull, i + 4)
    ELSE Bad

\* the elements of an array, after its opening bracket (acc empty) or after a comma
ScanItems(d, i, acc) ==
    IF acc = <<>> /\ SkipSpace(d, i) <= Len(d) /\ d[SkipSpace(d, i)] = "]"
    THEN Good(JArray(<<>>), SkipSpace(d, i) + 1)
    ELSE ItemsNext(d, acc, ScanValue(d, i))

\* r is the element just scanned
ItemsNext(d, acc, r) ==
    IF ~r.ok THEN Bad ELSE ItemsSep(d, acc, r, SkipSpace(d, r.next))

\* j is the byte after element r
ItemsSep(d, acc, r, j) ==
    IF j > Len(d) THEN Bad
    ELSE IF d[j] = "," THEN ItemsNext(d, Append(acc, r.v), ScanValue(d, j + 1))
    ELSE IF d[j] = "]" THEN Good(JArray(Append(acc, r.v)), j + 1)
    ELSE Bad

\* the members of an object, after its opening brace (ks empty) or after a comma
ScanMembers(d, i, ks, acc) ==
    IF ks = <<>> /\ SkipSpace(d, i) <= Len(d) /\ d[SkipSpace(d, i)] = "}"
    THEN Good(JObject(<<>>, <<>>), SkipSpace(d, i) + 1)
    ELSE MembersKey(d, SkipSpace(d, i), ks, acc)

\* k0 is where the key's opening quote must be
MembersKey(d, k0, ks, acc) ==
    IF k0 > Len(d) \/ d[k0] # "\"" THEN Bad
    ELSE MembersColon(d, ScanString(d, k0 + 1), ks, acc)

\* k is the key just scanned
MembersColon(d, k, ks, acc) ==
    IF ~k.ok THEN Bad ELSE MembersValue(d, k, SkipSpace(d, k.next), ks, acc)

\* c is where the colon must be
MembersValue(d, k, c, ks, acc) ==
    IF c > Len(d) \/ d[c] # ":" THEN Bad
    ELSE MembersNext(d, k, ScanValue(d, c + 1), ks, acc)

\* r is the value just scanned
MembersNext(d, k, r, ks, acc) ==
    IF ~r.ok THEN Bad ELSE MembersSep(d, k, r, SkipSpace(d, r.next), ks, acc)

\* j is the byte after value r
MembersSep(d, k, r, j, ks, acc) ==
    IF j > Len(d) THEN Bad
    ELSE IF d[j] = ","
         THEN MembersKey(d, SkipSpace(d, j + 1), Append(ks, k.v.str), Append(acc, r.v))
    ELSE IF d[j] = "}" THEN Good(JObject(Append(ks, k.v.str), Append(acc, r.v)), j + 1)
    ELSE Bad

\* r is the first value of the payload: what follows it may only be spaces
WholePayload(d, r) ==
    IF r.ok /\ SkipSpace(d, r.next) = Len(d) + 1 THEN r ELSE Bad

\* checkValid and the scan: the whole payload is one JSON value
Scan(d) == WholePayload(d, ScanValue(d, 1))

-----------------------------------------------------------------------------
(* encoding/json: Unmarshal into a destination *)

\* storing the scanned payload r into a string holding cur
StoreString(r, cur) ==
    IF ~r.ok THEN [err |-> SyntaxError, val |-> cur]
    ELSE IF r.v.kind = "string" THEN [err |-> NoErr, val |-> r.v.str]
    ELSE IF r.v.kind = "null" THEN [err |-> NoErr, val |-> cur]
    ELSE [err |-> UnmarshalTypeError, val |-> cur]

\* json.Unmarshal(data, &obj) for obj a string holding cur
UnmarshalString(d, cur) == StoreString(Scan(d), cur)

\* what one array element or map value leaves in a fresh string
ElemString(v) == IF v.kind = "string" THEN v.str ELSE <<>>
ElemFits(v) == v.kind \in {"string", "null"}

\* storing the scanned payload r into a nil []string
StoreStringSlice(r) ==
    IF ~r.ok THEN [err |-> SyntaxError, val |-> NilSlice]
    ELSE IF r.v.kind = "array" THEN
        [err |-> IF \A i \in 1..Len(r.v.items) : ElemFits(r.v.items[i])
                 THEN NoErr ELSE UnmarshalTypeError,
         val |-> Slice([i \in 1..Len(r.v.items) |-> ElemString(r.v.items[i])])]
    ELSE IF r.v.kind = "null" THEN [err |-> NoErr, val |-> NilSlice]
    ELSE [err |-> UnmarshalTypeError, val |-> NilSlice]

\* json.Unmarshal(data, &obj) for obj a nil []string
UnmarshalStringSlice(d) == StoreStringSlice(Scan(d))

-----------------------------------------------------------------------------
(* StringOrArray *)

\* the array branch of UnmarshalJSON, r the outcome of json.Unmarshal into obj []string
AssignSlice(s, r) ==
    IF r.err # NoErr THEN [err |-> r.err, s |-> s]
    ELSE [err |-> NoErr, s |-> r.val]

\* the string branch of UnmarshalJSON, r the outcome of json.Unmarshal into obj string
AssignString(s, r) ==
    IF r.err # NoErr THEN [err |-> r.err, s |-> s]
    ELSE [err |-> NoErr, s |-> Slice(<<r.val>>)]

\* the array branch refusing an array without elements
AssignSlice_RejectEmpty(s, r) ==
    IF r.err # NoErr THEN [err |-> r.err, s |-> s]
    ELSE IF r.val.elems = <<>> THEN [err |-> "EmptyScalar", s |-> s]
    ELSE [err |-> NoErr, s |-> r.val]

\* UnmarshalJSON without its array branch: every payload is decoded as a string
SOAUnmarshalJSON_StringOnly(s, d) == AssignString(s, UnmarshalString(d, <<>>))

\* UnmarshalJSON refusing an array without elements
SOAUnmarshalJSON_RejectEmpty(s, d) ==
    IF Len(d) > 1 /\ d[1] = "["
    THEN AssignSlice_RejectEmpty(s, UnmarshalStringSlice(d))
    ELSE AssignString(s, UnmarshalString(d, <<>>))

\* (*StringOrArray).UnmarshalJSON: the error returned and the value left in *s
SOAUnmarshalJSON(s, d) ==
    IF Len(d) > 1 /\ d[1] = "["
    THEN AssignSlice(s, UnmarshalStringSlice(d))
    ELSE AssignString(s, UnmarshalString(d, <<>>))

\* MarshalJSON without its one-element branch: always an array
SOAMarshalJSON_AlwaysArray(s) ==
    [err |-> NoErr, bytes |-> MarshalStringSlice(s)]

\* MarshalJSON refusing a sequence without elements
SOAMarshalJSON_RejectEmpty(s) ==
    IF Len(s.elems) = 0 THEN [err |-> "EmptyScalar", bytes |-> <<>>]
    ELSE IF Len(s.elems) = 1 THEN [err |-> NoErr, bytes |-> MarshalString(s.elems[1])]
    ELSE [err |-> NoErr, bytes |-> MarshalStringSlice(s)]

\* (*StringOrArray).MarshalJSON: the bytes and the error returned
SOAMarshalJSON(s) ==
    IF Len(s.elems) = 1 THEN [err |-> NoErr, bytes |-> MarshalString(s.elems[1])]
    ELSE [err |-> NoErr, bytes |-> MarshalStringSlice(s)]

-----------------------------------------------------------------------------
(* Wire payloads handed to the decoders *)

Payloads == {
    <<>>,
    <<"\"", "a", "\"">>,
    <<"\"", "\"">>,
    <<"\"", "a">>,
    <<"\"", "\\", "\"", "\"">>,
    <<"a">>,
    <<" ", "\"", "a", "\"">>,
    <<"\"", "a", "\"", " ">>,
    <<"\"", "a", "\"", "a">>,
    <<"[">>,
    <<"[", "]">>,
    <<"[", " ", "]">>,
    <<" ", "[", "]">>,
    <<"[", "\"", "a", "\"", "]">>,
    <<"[", "\"", "a", "\"", ",", "\"", "b", "\"", "]">>,
    <<"[", "\"", "b", "\"", ",", " ", "\"", "a", "\"", "]">>,
    <<"[", "\"", "a", "\"", ",", "]">>,
    <<"[", "\"", "a", "\"">>,
    <<"[", "n", "u", "l", "l", "]">>,
    <<"[", "\"", "a", "\"", ",", "1", "]">>,
    <<"[", "1", "]">>,
    <<"[", "[", "]", "]">>,
    <<"[", "t", "r", "u", "e", "]">>,
    <<"n", "u", "l", "l">>,
    <<"t", "r", "u", "e">>,
    <<"f", "a", "l", "s", "e">>,
    <<"1">>,
    <<"-", "1", "0">>,
    <<"1", ".", "5">>,
    <<"0", "1">>,
    <<"{", "}">>,
    <<"{", "\"", "a", "\"", ":", "\"", "b", "\"", "}">>,
    <<"{", "\"", "a", "\"", ":", "1", "}">>,
    <<"a", "\"", "b">>,
    <<"h", "e", "l", "l", "o", " ", "\"", "w", "o", "r", "l", "d", "\"">>,
    <<"a", "\\", "\"", "b">>,
    <<"a", "\"", "\\">>,
    <<"\\", "\\", "\"">>,
    <<"a", "\\", "n">>,
    <<"a", "\\", "x">>,
    <<"\"", "a", "\\", "\"", "b", "\"">>
}

-----------------------------------------------------------------------------
(* EnforcedString *)

\* bytes.ReplaceAll(d, old, new): the occurrences of old, from the left and without
\* overlap, replaced by new
RECURSIVE ReplaceAll(_, _, _)
ReplaceAll(d, old, new) ==
    IF Len(d) < Len(old) THEN d
    ELSE IF SubSeq(d, 1, Len(old)) = old
    THEN new \o ReplaceAll(SubSeq(d, Len(old) + 1, Len(d)), old, new)
    ELSE <<d[1]>> \o ReplaceAll(Tail(d), old, new)

\* a repair that only wraps the payload in quotes
ESRepair_NoEscape(d) ==
    IF d[1] # "\"" THEN <<"\"">> \o d \o <<"\"">> ELSE d

\* the payload handed to json.Unmarshal: a payload whose first byte is not a quote has
\* its quotes escaped, \\" collapsed to \", and is wrapped in quotes
ESRepair(d) ==
    IF d[1] # "\""
    THEN <<"\"">>
         \o ReplaceAll(ReplaceAll(d, <<"\"">>, <<"\\", "\"">>), <<"\\", "\\", "\"">>, <<"\\", "\"">>)
         \o <<"\"">>
    ELSE d

\* an UnmarshalJSON that drops the error of json.Unmarshal
ESUnmarshalJSON_DropError(s, d) ==
    IF Len(d) = 0 THEN [err |-> "panic", s |-> s]
    ELSE [err |-> NoErr,
          s |-> UnmarshalString(ESRepair(d), <<>>).val]

\* EnforcedString.UnmarshalJSON on the receiver s: data[0] of an empty payload panics;
\* val is assigned to *s whatever json.Unmarshal returns
ESUnmarshalJSON(s, d) ==
    IF Len(d) = 0 THEN [err |-> "panic", s |-> s]
    ELSE [err |-> UnmarshalString(ESRepair(d), <<>>).err,
          s |-> UnmarshalString(ESRepair(d), <<>>).val]

-----------------------------------------------------------------------------
(* The scalar state machine: a caller holding one StringOrArray *)

NoOrigin == [has |-> FALSE, v |-> NilSlice]
From(v) == [has |-> TRUE, v |-> v]

\* the caller encodes the value it holds
Marshal ==
    /\ data' = SOAMarshalJSON(soa).bytes
    /\ err' = SOAMarshalJSON(soa).err
    /\ origin' = From(soa)
    /\ op' = "marshal"
    /\ UNCHANGED <<soa, es>>

\* a payload arrives from the server
Receive ==
    \E p \in Payloads :
        /\ data' = p
        /\ origin' = NoOrigin
        /\ err' = NoErr
        /\ op' = "receive"
        /\ UNCHANGED <<soa, es>>

\* the caller decodes the payload, into the variable it holds or into a fresh one
Unmarshal ==
    /\ op \in {"marshal", "receive"}
    /\ err = NoErr
    /\ \E dst \in {soa, NilSlice} :
        LET r == SOAUnmarshalJSON(dst, data) IN
        /\ soa' = r.s
        /\ err' = r.err
    /\ op' = "unmarshal"
    /\ UNCHANGED <<data, origin, es>>

\* the caller decodes the payload into the EnforcedString it holds
EnforcedUnmarshal ==
    /\ op \in {"marshal", "receive"}
    /\ err = NoErr
    /\ es' = ESUnmarshalJSON(es, data).s
    /\ err' = ESUnmarshalJSON(es, data).err
    /\ op' = "enforced"
    /\ UNCHANGED <<soa, data, origin>>

NextScalar ==
    \/ Marshal /\ UNCHANGED <<projVars, polVars, concVars>>
    \/ Receive /\ UNCHANGED <<projVars, polVars, concVars>>
    \/ Unmarshal /\ UNCHANGED <<projVars, polVars, concVars>>

\* a caller holding one EnforcedString
NextText ==
    \/ Receive /\ UNCHANGED <<projVars, polVars, concVars>>
    \/ EnforcedUnmarshal /\ UNCHANGED <<projVars, polVars, concVars>>

-----------------------------------------------------------------------------
(* Option records: pointer fields and their json tags *)

\* a field of a struct: its Go name, the key of its json tag, the type it points to,
\* the tag's ",string" and ",omitempty" options, and whether the tag is "-"
Fld(n, k, t, q, o, d) ==
    [name |-> n, key |-> k, typ |-> t, quoted |-> q, omitempty |-> o, dash |-> d]

\* GetUsersParams with the omitempty option missing from the tag of Search
GetUsersParamsFields_SearchNoOmit == <<
    Fld("BriefRepresentation", <<"b", "r", "i", "e", "f", "R", "e", "p", "r", "e", "s", "e", "n", "t", "a", "t", "i", "o", "n">>, "bool", TRUE, TRUE, FALSE),
    Fld("Email", <<"e", "m", "a", "i", "l">>, "string", FALSE, TRUE, FALSE),
    Fld("EmailVerified", <<"e", "m", "a", "i", "l", "V", "e", "r", "i", "f", "i", "e", "d">>, "bool", TRUE, TRUE, FALSE),
    Fld("Enabled", <<"e", "n", "a", "b", "l", "e", "d">>, "bool", TRUE, TRUE, FALSE),
    Fld("Exact", <<"e", "x", "a", "c", "t">>, "bool", TRUE, TRUE, FALSE),
    Fld("First", <<"f", "i", "r", "s", "t">>, "int", TRUE, TRUE, FALSE),
    Fld("FirstName", <<"f", "i", "r", "s", "t", "N", "a", "m", "e">>, "string", FALSE, TRUE, FALSE),
    Fld("IDPAlias", <<"i", "d", "p", "A", "l", "i", "a", "s">>, "string", FALSE, TRUE, FALSE),
    Fld("IDPUserID", <<"i", "d", "p", "U", "s", "e", "r", "I", "d">>, "string", FALSE, TRUE, FALSE),
    Fld("LastName", <<"l", "a", "s", "t", "N", "a", "m", "e">>, "string", FALSE, TRUE, FALSE),
    Fld("Max", <<"m", "a", "x">>, "int", TRUE, TRUE, FALSE),
    Fld("Q", <<"q">>, "string", FALSE, TRUE, FALSE),
    Fld("Search", <<"s", "e", "a", "r", "c", "h">>, "string", FALSE, FALSE, FALSE),
    Fld("Username", <<"u", "s", "e", "r", "n", "a", "m", "e">>, "string", FALSE, TRUE, FALSE)
>>

\* GetUsersParams with the string option missing from the tag of Max
GetUsersParamsFields_MaxUnquoted == <<
    Fld("BriefRepresentation", <<"b", "r", "i", "e", "f", "R", "e", "p", "r", "e", "s", "e", "n", "t", "a", "t", "i", "o", "n">>, "bool", TRUE, TRUE, FALSE),
    Fld("Email", <<"e", "m", "a", "i", "l">>, "string", FALSE, TRUE, FALSE),
    Fld("EmailVerified", <<"e", "m", "a", "i", "l", "V", "e", "r", "i", "f", "i", "e", "d">>, "bool", TRUE, TRUE, FALSE),
    Fld("Enabled", <<"e", "n", "a", "b", "l", "e", "d">>, "bool", TRUE, TRUE, FALSE),
    Fld("Exact", <<"e", "x", "a", "c", "t">>, "bool", TRUE, TRUE, FALSE),
    Fld("First", <<"f", "i", "r", "s", "t">>, "int", TRUE, TRUE, FALSE),
    Fld("FirstName", <<"f", "i", "r", "s", "t", "N", "a", "m", "e">>, "string", FALSE, TRUE, FALSE),
    Fld("IDPAlias", <<"i", "d", "p", "A", "l", "i", "a", "s">>, "string", FALSE, TRUE, FALSE),
    Fld("IDPUserID", <<"i", "d", "p", "U", "s", "e", "r", "I", "d">>, "string", FALSE, TRUE, FALSE),
    Fld("LastName", <<"l", "a", "s", "t", "N", "a", "m", "e">>, "string", FALSE, TRUE, FALSE),
    Fld("Max", <<"m", "a", "x">>, "int", FALSE, TRUE, FALSE),
    Fld("Q", <<"q">>, "string", FALSE, TRUE, FALSE),
    Fld("Search", <<"s", "e", "a", "r", "c", "h">>, "string", FALSE, TRUE, FALSE),
    Fld("Username", <<"u", "s", "e", "r", "n", "a", "m", "e">>, "string", FALSE, TRUE, FALSE)
>>

\* GetUsersParams with the string option added to the tag of the string field Q
GetUsersParamsFields_QQuoted == <<
    Fld("BriefRepresentation", <<"b", "r", "i", "e", "f", "R", "e", "p", "r", "e", "s", "e", "n", "t", "a", "t", "i", "o", "n">>, "bool", TRUE, TRUE, FALSE),
    Fld("Email", <<"e", "m", "a", "i", "l">>, "string", FALSE, TRUE, FALSE),
    Fld("EmailVerified", <<"e", "m", "a", "i", "l", "V", "e", "r", "i", "f", "i", "e", "d">>, "bool", TRUE, TRUE, FALSE),
    Fld("Enabled", <<"e", "n", "a", "b", "l", "e", "d">>, "bool", TRUE, TRUE, FALSE),
    Fld("Exact", <<"e", "x", "a", "c", "t">>, "bool", TRUE, TRUE, FALSE),
    Fld("First", <<"f", "i", "r", "s", "t">>, "int", TRUE, TRUE, FALSE),
    Fld("FirstName", <<"f", "i", "r", "s", "t", "N", "a", "m", "e">>, "string", FALSE, TRUE, FALSE),
    Fld("IDPAlias", <<"i", "d", "p", "A", "l", "i", "a", "s">>, "string", FALSE, TRUE, FALSE),
    Fld("IDPUserID", <<"i", "d", "p", "U", "s", "e", "r", "I", "d">>, "string", FALSE, TRUE, FALSE),
    Fld("LastName", <<"l", "a", "s", "t", "N", "a", "m", "e">>, "string", FALSE, TRUE, FALSE),
    Fld("Max", <<"m", "a", "x">>, "int", TRUE, TRUE, FALSE),
    Fld("Q", <<"q">>, "string", TRUE, TRUE, FALSE),
    Fld("Search", <<"s", "e", "a", "r", "c", "h">>, "string", FALSE, TRUE, FALSE),
    Fld("Username", <<"u", "s", "e", "r", "n", "a", "m", "e">>, "string", FALSE, TRUE, FALSE)
>>

\* the fields of GetUsersParams, in declaration order, with their json tags
GetUsersParamsFields == <<
    Fld("BriefRepresentation", <<"b", "r", "i", "e", "f", "R", "e", "p", "r", "e", "s", "e", "n", "t", "a", "t", "i", "o", "n">>, "bool", TRUE, TRUE, FALSE),
    Fld("Email", <<"e", "m", "a", "i", "l">>, "string", FALSE, TRUE, FALSE),
    Fld("EmailVerified", <<"e", "m", "a", "i", "l", "V", "e", "r", "i", "f", "i", "e", "d">>, "bool", TRUE, TRUE, FALSE),
    Fld("Enabled", <<"e", "n", "a", "b", "l", "e", "d">>, "bool", TRUE, TRUE, FALSE),
    Fld("Exact", <<"e", "x", "a", "c", "t">>, "bool", TRUE, TRUE, FALSE),
    Fld("First", <<"f", "i", "r", "s", "t">>, "int", TRUE, TRUE, FALSE),
    Fld("FirstName", <<"f", "i", "r", "s", "t", "N", "a", "m", "e">>, "string", FALSE, TRUE, FALSE),
    Fld("IDPAlias", <<"i", "d", "p", "A", "l", "i", "a", "s">>, "string", FALSE, TRUE, FALSE),
    Fld("IDPUserID", <<"i", "d", "p", "U", "s", "e", "r", "I", "d">>, "string", FALSE, TRUE, FALSE),
    Fld("LastName", <<"l", "a", "s", "t", "N", "a", "m", "e">>, "string", FALSE, TRUE, FALSE),
    Fld("Max", <<"m", "a", "x">>, "int", TRUE, TRUE, FALSE),
    Fld("Q", <<"q">>, "string", FALSE, TRUE, FALSE),
    Fld("Search", <<"s", "e", "a", "r", "c", "h">>, "string", FALSE, TRUE, FALSE),
    Fld("Username", <<"u", "s", "e", "r", "n", "a", "m", "e">>, "string", FALSE, TRUE, FALSE)
>>

\* the fields of GetGroupsParams, in declaration order, with their json tags
GetGroupsParamsFields == <<
    Fld("BriefRepresentation", <<"b", "r", "i", "e", "f", "R", "e", "p", "r", "e", "s", "e", "n", "t", "a", "t", "i", "o", "n">>, "bool", TRUE, TRUE, FALSE),
    Fld("Exact", <<"e", "x", "a", "c", "t">>, "bool", TRUE, TRUE, FALSE),
    Fld("First", <<"f", "i", "r", "s", "t">>, "int", TRUE, TRUE, FALSE),
    Fld("Full", <<"f", "u", "l", "l">>, "bool", TRUE, TRUE, FALSE),
    Fld("Max", <<"m", "a", "x">>, "int", TRUE, TRUE, FALSE),
    Fld("Q", <<"q">>, "string", FALSE, TRUE, FALSE),
    Fld("Search", <<"s", "e", "a", "r", "c", "h">>, "string", FALSE, TRUE, FALSE)
>>

\* the fields of GetUserPermissionParams, in declaration order, with their json tags
GetUserPermissionParamsFields == <<
    Fld("ScopeID", <<"s", "c", "o", "p", "e", "I", "d">>, "string", FALSE, TRUE, FALSE),
    Fld("ResourceID", <<"r", "e", "s", "o", "u", "r", "c", "e", "I", "d">>, "string", FALSE, TRUE, FALSE),
    Fld("Owner", <<"o", "w", "n", "e", "r">>, "string", FALSE, TRUE, FALSE),
    Fld("Requester", <<"r", "e", "q", "u", "e", "s", "t", "e", "r">>, "string", FALSE, TRUE, FALSE),
    Fld("Granted", <<"g", "r", "a", "n", "t", "e", "d">>, "bool", FALSE, TRUE, FALSE),
    Fld("ReturnNames", <<"r", "e", "t", "u", "r", "n", "N", "a", "m", "e", "s">>, "string", FALSE, TRUE, FALSE),
    Fld("First", <<"f", "i", "r", "s", "t">>, "int", TRUE, TRUE, FALSE),
    Fld("Max", <<"m", "a", "x">>, "int", TRUE, TRUE, FALSE)
>>

\* the fields of ExecuteActionsEmail, in declaration order, with their json tags
ExecuteActionsEmailFields == <<
    Fld("UserID", <<>>, "string", FALSE, FALSE, TRUE),
    Fld("ClientID", <<"c", "l", "i", "e", "n", "t", "_", "i", "d">>, "string", FALSE, TRUE, FALSE),
    Fld("Lifespan", <<"l", "i", "f", "e", "s", "p", "a", "n">>, "int", TRUE, TRUE, FALSE),
    Fld("RedirectURI", <<"r", "e", "d", "i", "r", "e", "c", "t", "_", "u", "r", "i">>, "string", FALSE, TRUE, FALSE),
    Fld("Actions", <<>>, "slice", FALSE, FALSE, TRUE)
>>

\* the fields of AuthorizationParameters, in declaration order, with their json tags
AuthorizationParametersFields == <<
    Fld("ResponseType", <<"c", "o", "d", "e">>, "string", FALSE, TRUE, FALSE),
    Fld("ClientID", <<"c", "l", "i", "e", "n", "t", "_", "i", "d">>, "string", FALSE, TRUE, FALSE),
    Fld("Scope", <<"s", "c", "o", "p", "e">>, "string", FALSE, TRUE, FALSE),
    Fld("RedirectURI", <<"r", "e", "d", "i", "r", "e", "c", "t", "_", "u", "r", "i">>, "string", FALSE, TRUE, FALSE),
    Fld("State", <<"s", "t", "a", "t", "e">>, "string", FALSE, TRUE, FALSE),
    Fld("Nonce", <<"n", "o", "n", "c", "e">>, "string", FALSE, TRUE, FALSE),
    Fld("IDTokenHint", <<"i", "d", "_", "t", "o", "k", "e", "n", "_", "h", "i", "n", "t">>, "string", FALSE, TRUE, FALSE)
>>

\* the fields of TokenOptions, in declaration order, with their json tags
TokenOptionsFields == <<
    Fld("ClientID", <<"c", "l", "i", "e", "n", "t", "_", "i", "d">>, "string", FALSE, TRUE, FALSE),
    Fld("ClientSecret", <<>>, "string", FALSE, FALSE, TRUE),
    Fld("GrantType", <<"g", "r", "a", "n", "t", "_", "t", "y", "p", "e">>, "string", FALSE, TRUE, FALSE),
    Fld("RefreshToken", <<"r", "e", "f", "r", "e", "s", "h", "_", "t", "o", "k", "e", "n">>, "string", FALSE, TRUE, FALSE),
    Fld("Scopes", <<>>, "slice", FALSE, FALSE, TRUE),
    Fld("Scope", <<"s", "c", "o", "p", "e">>, "string", FALSE, TRUE, FALSE),
    Fld("ResponseTypes", <<>>, "slice", FALSE, FALSE, TRUE),
    Fld("ResponseType", <<"r", "e", "s", "p", "o", "n", "s", "e", "_", "t", "y", "p", "e">>, "string", FALSE, TRUE, FALSE),
    Fld("Permission", <<"p", "e", "r", "m", "i", "s", "s", "i", "o", "n">>, "string", FALSE, TRUE, FALSE),
    Fld("Username", <<"u", "s", "e", "r", "n", "a", "m", "e">>, "string", FALSE, TRUE, FALSE),
    Fld("Password", <<"p", "a", "s", "s", "w", "o", "r", "d">>, "string", FALSE, TRUE, FALSE),
    Fld("Totp", <<"t", "o", "t", "p">>, "string", FALSE, TRUE, FALSE),
    Fld("Code", <<"c", "o", "d", "e">>, "string", FALSE, TRUE, FALSE),
    Fld("RedirectURI", <<"r", "e", "d", "i", "r", "e", "c", "t", "_", "u", "r", "i">>, "string", FALSE, TRUE, FALSE),
    Fld("ClientAssertionType", <<"c", "l", "i", "e", "n", "t", "_", "a", "s", "s", "e", "r", "t", "i", "o", "n", "_", "t", "y", "p", "e">>, "string", FALSE, TRUE, FALSE),
    Fld("ClientAssertion", <<"c", "l", "i", "e", "n", "t", "_", "a", "s", "s", "e", "r", "t", "i", "o", "n">>, "string", FALSE, TRUE, FALSE),
    Fld("SubjectToken", <<"s", "u", "b", "j", "e", "c", "t", "_", "t", "o", "k", "e", "n">>, "string", FALSE, TRUE, FALSE),
    Fld("RequestedSubject", <<"r", "e", "q", "u", "e", "s", "t", "e", "d", "_", "s", "u", "b", "j", "e", "c", "t">>, "string", FALSE, TRUE, FALSE),
    Fld("Audience", <<"a", "u", "d", "i", "e", "n", "c", "e">>, "string", FALSE, TRUE, FALSE),
    Fld("RequestedTokenType", <<"r", "e", "q", "u", "e", "s", "t", "e", "d", "_", "t", "o", "k", "e", "n", "_", "t", "y", "p", "e">>, "string", FALSE, TRUE, FALSE)
>>

\* the fields of RequestingPartyTokenOptions, in declaration order, with their json tags
RequestingPartyTokenOptionsFields == <<
    Fld("GrantType", <<"g", "r", "a", "n", "t", "_", "t", "y", "p", "e">>, "string", FALSE, TRUE, FALSE),
    Fld("Ticket", <<"t", "i", "c", "k", "e", "t">>, "string", FALSE, TRUE, FALSE),
    Fld("ClaimToken", <<"c", "l", "a", "i", "m", "_", "t", "o", "k", "e", "n">>, "string", FALSE, TRUE, FALSE),
    Fld("ClaimTokenFormat", <<"c", "l", "a", "i", "m", "_", "t", "o", "k", "e", "n", "_", "f", "o", "r", "m", "a", "t">>, "string", FALSE, TRUE, FALSE),
    Fld("RPT", <<"r", "p", "t">>, "string", FALSE, TRUE, FALSE),
    Fld("Permissions", <<>>, "slice", FALSE, FALSE, TRUE),
    Fld("PermissionResourceFormat", <<"p", "e", "r", "m", "i", "s", "s", "i", "o", "n", "_", "r", "e", "s", "o", "u", "r", "c", "e", "_", "f", "o", "r", "m", "a", "t">>, "string", FALSE, TRUE, FALSE),
    Fld("PermissionResourceMatchingURI", <<"p", "e", "r", "m", "i", "s", "s", "i", "o", "n", "_", "r", "e", "s", "o", "u", "r", "c", "e", "_", "m", "a", "t", "c", "h", "i", "n", "g", "_", "u", "r", "i">>, "bool", TRUE, TRUE, FALSE),
    Fld("Audience", <<"a", "u", "d", "i", "e", "n", "c", "e">>, "string", FALSE, TRUE, FALSE),
    Fld("ResponseIncludeResourceName", <<"r", "e", "s", "p", "o", "n", "s", "e", "_", "i", "n", "c", "l", "u", "d", "e", "_", "r", "e", "s", "o", "u", "r", "c", "e", "_", "n", "a", "m", "e">>, "bool", TRUE, TRUE, FALSE),
    Fld("ResponsePermissionsLimit", <<"r", "e", "s", "p", "o", "n", "s", "e", "_", "p", "e", "r", "m", "i", "s", "s", "i", "o", "n", "s", "_", "l", "i", "m", "i", "t">>, "int", FALSE, TRUE, FALSE),
    Fld("SubmitRequest", <<"s", "u", "b", "m", "i", "t", "_", "r", "e", "q", "u", "e", "s", "t">>, "bool", TRUE, TRUE, FALSE),
    Fld("ResponseMode", <<"r", "e", "s", "p", "o", "n", "s", "e", "_", "m", "o", "d", "e">>, "string", FALSE, TRUE, FALSE),
    Fld("SubjectToken", <<"s", "u", "b", "j", "e", "c", "t", "_", "t", "o", "k", "e", "n">>, "string", FALSE, TRUE, FALSE)
>>

\* the fields of OrganizationInviteUserParams, in declaration order, with their json tags
OrganizationInviteUserParamsFields == <<
    Fld("Email", <<"e", "m", "a", "i", "l">>, "string", FALSE, TRUE, FALSE),
    Fld("FirstName", <<"f", "i", "r", "s", "t", "N", "a", "m", "e">>, "string", FALSE, TRUE, FALSE),
    Fld("LastName", <<"l", "a", "s", "t", "N", "a", "m", "e">>, "string", FALSE, TRUE, FALSE)
>>

RecordTypes == {"GetUsersParams", "GetGroupsParams", "GetUserPermissionParams",
                "ExecuteActionsEmail", "AuthorizationParameters", "TokenOptions",
                "RequestingPartyTokenOptions", "OrganizationInviteUserParams"}

FieldsOf(t) ==
    CASE t = "GetUsersParams" -> GetUsersParamsFields
      [] t = "GetGroupsParams" -> GetGroupsParamsFields
      [] t = "GetUserPermissionParams" -> GetUserPermissionParamsFields
      [] t = "ExecuteActionsEmail" -> ExecuteActionsEmailFields
      [] t = "AuthorizationParameters" -> AuthorizationParametersFields
      [] t = "TokenOptions" -> TokenOptionsFields
      [] t = "RequestingPartyTokenOptions" -> RequestingPartyTokenOptionsFields
      [] t = "OrganizationInviteUserParams" -> OrganizationInviteUserParamsFields

\* a pointer field's value: nil (set = FALSE) or pointing to a string s, an integer n,
\* a boolean b or a slice of strings l, by the field's type
NilP == [set |-> FALSE, s |-> <<>>, n |-> 0, b |-> FALSE, l |-> <<>>]
StringP(x) == [set |-> TRUE, s |-> x, n |-> 0, b |-> FALSE, l |-> <<>>]
IntP(x) == [set |-> TRUE, s |-> <<>>, n |-> x, b |-> FALSE, l |-> <<>>]
BoolP(x) == [set |-> TRUE, s |-> <<>>, n |-> 0, b |-> x, l |-> <<>>]
SliceP(x) == [set |-> TRUE, s |-> <<>>, n |-> 0, b |-> FALSE, l |-> x]

\* the values callers give to fields
StrValues == {<<>>, <<"a", "\"", "\\">>}
IntValues == {10, -7}
ListValues == {<<>>, << <<"a">>, <<"b">> >>}

ValuesOf(typ) ==
    CASE typ = "string" -> {StringP(x) : x \in StrValues}
      [] typ = "int" -> {IntP(x) : x \in IntValues}
      [] typ = "bool" -> {BoolP(x) : x \in BOOLEAN}
      [] typ = "slice" -> {SliceP(x) : x \in ListValues}

FieldNames(t) == {FieldsOf(t)[i].name : i \in 1..Len(FieldsOf(t))}

\* a record of type t as constructed: every pointer nil
ZeroRecord(t) == [type |-> t, f |-> [n \in FieldNames(t) |-> NilP]]

NumSet(r) == Cardinality({n \in DOMAIN r.f : r.f[n].set})

-----------------------------------------------------------------------------
(* encoding/json: Marshal of a struct, Unmarshal into map[string]string *)

DigitChar(k) == <<"0", "1", "2", "3", "4", "5", "6", "7", "8", "9">>[k + 1]

RECURSIVE NatText(_)
NatText(n) == IF n < 10 THEN <<DigitChar(n)>> ELSE Append(NatText(n \div 10), DigitChar(n % 10))

\* the base-10 text of an integer
Itoa(n) == IF n < 0 THEN <<"-">> \o NatText(-n) ELSE NatText(n)

BoolLiteral(b) == IF b THEN <<"t", "r", "u", "e">> ELSE <<"f", "a", "l", "s", "e">>

Quote(bytes) == <<"\"">> \o bytes \o <<"\"">>

\* the JSON written for a non-nil field; ",string" wraps the encoding in a JSON string
MarshalField(fd, v) ==
    CASE fd.typ = "string" ->
            IF fd.quoted THEN MarshalString(MarshalString(v.s)) ELSE MarshalString(v.s)
      [] fd.typ = "bool" ->
            IF fd.quoted THEN Quote(BoolLiteral(v.b)) ELSE BoolLiteral(v.b)
      [] fd.typ = "int" ->
            IF fd.quoted THEN Quote(Itoa(v.n)) ELSE Itoa(v.n)
      [] fd.typ = "slice" -> MarshalStringSlice(Slice(v.l))

\* a marshaller that writes the fields tagged "-" too
Emitted_IgnoreDash(fd, f) == ~(fd.omitempty /\ ~f[fd.name].set)

\* a field is written unless its tag is "-" or it is a nil pointer with omitempty
Emitted(fd, f) == ~fd.dash /\ ~(fd.omitempty /\ ~f[fd.name].set)

MarshalMember(fd, f) ==
    MarshalString(fd.key) \o <<":">> \o
    (IF f[fd.name].set THEN MarshalField(fd, f[fd.name]) ELSE <<"n", "u", "l", "l">>)

\* json.Marshal of a struct with fields f tagged as in table fields
MarshalMembers(emitted, f) ==
    <<"{">> \o JoinComma([i \in 1..Len(emitted) |-> MarshalMember(emitted[i], f)]) \o <<"}">>

MarshalStruct(fields, f) ==
    MarshalMembers(SelectSeq(fields, LAMBDA fd : Emitted(fd, f)), f)

\* a map[string]string: nil, or a function from keys to values
NilMap == [isNil |-> TRUE, m |-> <<>>]
Map(m) == [isNil |-> FALSE, m |-> m]

\* the last member of an object with key k
LastIndex(ks, k) == CHOOSE i \in 1..Len(ks) : ks[i] = k /\ \A j \in (i + 1)..Len(ks) : ks[j] # k

\* json.Unmarshal(data, &res) for res a nil map[string]string, r the scanned payload: a
\* member whose value is not a string is recorded as an UnmarshalTypeError and stored as
\* the empty string
StoreMap(r) ==
    IF ~r.ok THEN [err |-> SyntaxError, val |-> NilMap]
    ELSE IF r.v.kind = "object" THEN
        [err |-> IF \A i \in 1..Len(r.v.items) : ElemFits(r.v.items[i])
                 THEN NoErr ELSE UnmarshalTypeError,
         val |-> Map([k \in Range(r.v.keys) |-> ElemString(r.v.items[LastIndex(r.v.keys, k)])])]
    ELSE IF r.v.kind = "null" THEN [err |-> NoErr, val |-> NilMap]
    ELSE [err |-> UnmarshalTypeError, val |-> NilMap]

UnmarshalMap(d) == StoreMap(Scan(d))

-----------------------------------------------------------------------------
(* The projections *)

\* GetGroupsParams.MarshalJSON with the two branches tested in the other order
GetGroupsParamsMarshalJSON_FullFirst(f) ==
    MarshalStruct(GetGroupsParamsFields,
        IF f["Full"].set
        THEN [f EXCEPT !["BriefRepresentation"] = BoolP(~f["Full"].b)]
        ELSE IF f["BriefRepresentation"].set
        THEN [f EXCEPT !["Full"] = BoolP(~f["BriefRepresentation"].b)]
        ELSE f)

\* GetGroupsParams.MarshalJSON without the aliasing
GetGroupsParamsMarshalJSON_NoAlias(f) == MarshalStruct(GetGroupsParamsFields, f)

\* GetGroupsParams.MarshalJSON: the aliasing is done on a copy of the record
GetGroupsParamsMarshalJSON(f) ==
    MarshalStruct(GetGroupsParamsFields,
        IF f["BriefRepresentation"].set
        THEN [f EXCEPT !["Full"] = BoolP(~f["BriefRepresentation"].b)]
        ELSE IF f["Full"].set
        THEN [f EXCEPT !["BriefRepresentation"] = BoolP(~f["Full"].b)]
        ELSE f)

\* json.Marshal(s) for a record s: the type's MarshalJSON when it has one
MarshalRecord(r) ==
    IF r.type = "GetGroupsParams" THEN GetGroupsParamsMarshalJSON(r.f)
    ELSE MarshalStruct(FieldsOf(r.type), r.f)

\* GetQueryParams: the mapping and the error returned, u the outcome of json.Unmarshal
QueryParamsResult(u) ==
    IF u.err # NoErr THEN [res |-> NilMap, err |-> u.err]
    ELSE [res |-> u.val, err |-> NoErr]

GetQueryParams(r) == QueryParamsResult(UnmarshalMap(MarshalRecord(r)))

\* the tail of every FormData method: both errors are dropped
MarshalToMap(r) == UnmarshalMap(MarshalRecord(r)).val

\* utils: NilOrEmpty and NilOrEmptySlice
NilOrEmpty(v) == ~v.set \/ Len(v.s) = 0
NilOrEmptySlice(v) == ~v.set \/ Len(v.l) = 0

\* strings.Join with a comma for the separator
RECURSIVE JoinSpace_Comma(_)
JoinSpace_Comma(l) ==
    IF l = <<>> THEN <<>>
    ELSE IF Len(l) = 1 THEN l[1]
    ELSE l[1] \o <<",">> \o JoinSpace_Comma(Tail(l))

\* strings.Join(l, " ")
RECURSIVE JoinSpace(_)
JoinSpace(l) ==
    IF l = <<>> THEN <<>>
    ELSE IF Len(l) = 1 THEN l[1]
    ELSE l[1] \o <<" ">> \o JoinSpace(Tail(l))

\* the join of Scopes, made only when the caller has left Scope unset
JoinScopes_KeepExplicit(f) ==
    IF ~NilOrEmptySlice(f["Scopes"]) /\ NilOrEmpty(f["Scope"])
    THEN [f EXCEPT !["Scope"] = StringP(JoinSpace(f["Scopes"].l))] ELSE f

\* the three assignments TokenOptions.FormData makes before it marshals
JoinScopes(f) ==
    IF ~NilOrEmptySlice(f["Scopes"])
    THEN [f EXCEPT !["Scope"] = StringP(JoinSpace(f["Scopes"].l))] ELSE f

JoinResponseTypes(f) ==
    IF ~NilOrEmptySlice(f["ResponseTypes"])
    THEN [f EXCEPT !["ResponseType"] = StringP(JoinSpace(f["ResponseTypes"].l))] ELSE f

\* a default given only to a nil ResponseType
DefaultResponseType_NilOnly(f) ==
    IF ~f["ResponseType"].set
    THEN [f EXCEPT !["ResponseType"] = StringP(<<"t", "o", "k", "e", "n">>)] ELSE f

DefaultResponseType(f) ==
    IF NilOrEmpty(f["ResponseType"])
    THEN [f EXCEPT !["ResponseType"] = StringP(<<"t", "o", "k", "e", "n">>)] ELSE f

\* the record TokenOptions.FormData leaves behind
TokenOptionsPrepare(f) == DefaultResponseType(JoinResponseTypes(JoinScopes(f)))

\* urn:ietf:params:oauth:grant-type:uma-ticket
UmaTicket ==
    <<"u", "r", "n", ":", "i", "e", "t", "f", ":", "p", "a", "r", "a", "m", "s", ":", "o", "a", "u", "t", "h", ":",
      "g", "r", "a", "n", "t", "-", "t", "y", "p", "e", ":", "u", "m", "a", "-", "t", "i", "c", "k", "e", "t">>

\* the two assignments RequestingPartyTokenOptions.FormData makes before it marshals
DefaultGrantType(f) ==
    IF NilOrEmpty(f["GrantType"])
    THEN [f EXCEPT !["GrantType"] = StringP(UmaTicket)] ELSE f

DefaultIncludeResourceName(f) ==
    IF ~f["ResponseIncludeResourceName"].set
    THEN [f EXCEPT !["ResponseIncludeResourceName"] = BoolP(TRUE)] ELSE f

\* the record RequestingPartyTokenOptions.FormData leaves behind
RequestingPartyTokenOptionsPrepare(f) == DefaultIncludeResourceName(DefaultGrantType(f))

-----------------------------------------------------------------------------
(* The record state machine: a caller holding one option record *)

MaxSet == 2

\* the fields the caller sets: of every type, fields of each tag shape and every field
\* a method reads or writes
CallerFields(t) ==
    CASE t = "GetUsersParams" ->
            {"BriefRepresentation", "Enabled", "First", "Max", "Q", "Search"}
      [] t = "GetGroupsParams" ->
            {"BriefRepresentation", "Full", "First", "Max", "Search"}
      [] t = "GetUserPermissionParams" ->
            {"ScopeID", "Granted", "ReturnNames", "First", "Max"}
      [] t = "ExecuteActionsEmail" ->
            {"UserID", "ClientID", "Lifespan", "Actions"}
      [] t = "AuthorizationParameters" ->
            {"ResponseType", "ClientID", "Scope"}
      [] t = "TokenOptions" ->
            {"ClientID", "ClientSecret", "GrantType", "Scopes", "Scope",
             "ResponseTypes", "ResponseType", "Username"}
      [] t = "RequestingPartyTokenOptions" ->
            {"GrantType", "Ticket", "Permissions", "PermissionResourceMatchingURI",
             "ResponseIncludeResourceName", "ResponsePermissionsLimit", "SubmitRequest"}
      [] t = "OrganizationInviteUserParams" ->
            {"Email", "FirstName", "LastName"}

QueryTypes == {"GetUsersParams", "GetGroupsParams", "GetUserPermissionParams",
               "ExecuteActionsEmail"}

\* the caller sets a field of the record
SetField ==
    \E i \in 1..Len(FieldsOf(rec.type)) :
        LET fd == FieldsOf(rec.type)[i] IN
        /\ fd.name \in CallerFields(rec.type)
        /\ rec.f[fd.name].set \/ NumSet(rec) < MaxSet
        /\ \E v \in ValuesOf(fd.typ) :
            /\ v # rec.f[fd.name]
            /\ rec' = [rec EXCEPT !.f[fd.name] = v]
            /\ own' = [own EXCEPT !.f[fd.name] = v]
        /\ res' = NilMap
        /\ perr' = NoErr
        /\ pop' = "set"
        /\ order' = <<>>
        /\ enc' = <<>>
    /\ enc' = <<>>

\* the caller resets a field of the record to nil
ClearField ==
    \E n \in DOMAIN rec.f :
        /\ rec.f[n].set
        /\ rec' = [rec EXCEPT !.f[n] = NilP]
        /\ own' = [own EXCEPT !.f[n] = NilP]
        /\ res' = NilMap
        /\ perr' = NoErr
        /\ pop' = "clear"
        /\ order' = <<>>
        /\ enc' = <<>>
    /\ enc' = <<>>

CallGetQueryParams ==
    /\ rec.type \in QueryTypes
    /\ pop # "range"
    /\ LET r == GetQueryParams(rec) IN
        /\ res' = r.res
        /\ perr' = r.err
    /\ pop' = "GetQueryParams"
    /\ order' = <<>>
    /\ enc' = <<>>
    /\ UNCHANGED rec

AuthorizationParametersFormData ==
    /\ rec.type = "AuthorizationParameters"
    /\ res' = MarshalToMap(rec)
    /\ perr' = NoErr
    /\ pop' = "FormData"
    /\ order' = <<>>
    /\ enc' = <<>>
    /\ UNCHANGED rec

TokenOptionsFormData ==
    /\ rec.type = "TokenOptions"
    /\ rec' = [rec EXCEPT !.f = TokenOptionsPrepare(rec.f)]
    /\ res' = MarshalToMap(rec')
    /\ perr' = NoErr
    /\ pop' = "FormData"
    /\ order' = <<>>
    /\ enc' = <<>>

RequestingPartyTokenOptionsFormData ==
    /\ rec.type = "RequestingPartyTokenOptions"
    /\ rec' = [rec EXCEPT !.f = RequestingPartyTokenOptionsPrepare(rec.f)]
    /\ res' = MarshalToMap(rec')
    /\ perr' = NoErr
    /\ pop' = "FormData"
    /\ order' = <<>>
    /\ enc' = <<>>

OrganizationInviteUserParamsFormData ==
    /\ rec.type = "OrganizationInviteUserParams"
    /\ res' = MarshalToMap(rec)
    /\ perr' = NoErr
    /\ pop' = "FormData"
    /\ order' = <<>>
    /\ enc' = <<>>
    /\ UNCHANGED rec

\* MarshalJSON with a pointer receiver that aliases the caller's record itself
CallMarshalJSON_WriteBack ==
    /\ rec.type = "GetGroupsParams"
    /\ enc' = GetGroupsParamsMarshalJSON(rec.f)
    /\ res' = NilMap
    /\ perr' = NoErr
    /\ pop' = "MarshalJSON"
    /\ order' = <<>>
    /\ rec' = [rec EXCEPT !.f =
                  IF rec.f["BriefRepresentation"].set
                  THEN [rec.f EXCEPT !["Full"] = BoolP(~rec.f["BriefRepresentation"].b)]
                  ELSE IF rec.f["Full"].set
                  THEN [rec.f EXCEPT !["BriefRepresentation"] = BoolP(~rec.f["Full"].b)]
                  ELSE rec.f]

\* the caller encodes a GetGroupsParams value: json.Marshal calls its MarshalJSON, whose
\* receiver is a copy of the record
CallMarshalJSON ==
    /\ rec.type = "GetGroupsParams"
    /\ enc' = GetGroupsParamsMarshalJSON(rec.f)
    /\ res' = NilMap
    /\ perr' = NoErr
    /\ pop' = "MarshalJSON"
    /\ order' = <<>>
    /\ UNCHANGED rec

RangeOrders(S) ==
    {o \in [1..Cardinality(S) -> S] : \A i, j \in 1..Cardinality(S) : o[i] = o[j] => i = j}

\* the caller of GetQueryParams ranges over the returned map; Go leaves the order of a
\* range over a map unspecified
RangeResult ==
    /\ pop = "GetQueryParams"
    /\ perr = NoErr
    /\ \E o \in RangeOrders(DOMAIN res.m) : order' = o
    /\ pop' = "range"
    /\ UNCHANGED <<rec, res, perr, enc>>

\* two goroutines, each about to call FormData on the one TokenOptions they share
Goroutines == {1, 2}
Idle == [g \in Goroutines |-> "idle"]
NoReturn == [g \in Goroutines |-> NilMap]

NextProj ==
    \/ SetField /\ UNCHANGED <<soaVars, polVars, concVars>>
    \/ ClearField /\ UNCHANGED <<soaVars, polVars, concVars>>
    \/ CallGetQueryParams /\ UNCHANGED <<soaVars, polVars, concVars, own>>
    \/ AuthorizationParametersFormData /\ UNCHANGED <<soaVars, polVars, concVars, own>>
    \/ TokenOptionsFormData /\ UNCHANGED <<soaVars, polVars, concVars, own>>
    \/ RequestingPartyTokenOptionsFormData /\ UNCHANGED <<soaVars, polVars, concVars, own>>
    \/ OrganizationInviteUserParamsFormData /\ UNCHANGED <<soaVars, polVars, concVars, own>>
    \/ RangeResult /\ UNCHANGED <<soaVars, polVars, concVars, own>>
    \/ CallMarshalJSON /\ UNCHANGED <<soaVars, polVars, concVars, own>>

-----------------------------------------------------------------------------
(* Two goroutines calling TokenOptions.FormData on one record, statement by statement *)

\* the statement after each statement of FormData
NextStatement(st) ==
    CASE st = "scopes" -> "types"
      [] st = "types" -> "default"
      [] st = "default" -> "marshal"
      [] st = "marshal" -> "done"

\* the fields of the record after the statement st has run on the fields f
StatementEffect(st, f) ==
    CASE st = "scopes" -> JoinScopes(f)
      [] st = "types" -> JoinResponseTypes(f)
      [] st = "default" -> DefaultResponseType(f)
      [] st = "marshal" -> f

\* the fields the statement st reads: each `if` reads the field it tests, json.Marshal
\* reads every field whose tag is not "-"
StatementReads(st) ==
    CASE st = "scopes" -> {"Scopes"}
      [] st = "types" -> {"ResponseTypes"}
      [] st = "default" -> {"ResponseType"}
      [] st = "marshal" ->
            {TokenOptionsFields[i].name : i \in {j \in 1..Len(TokenOptionsFields) : ~TokenOptionsFields[j].dash}}
      [] OTHER -> {}

\* the fields the statement st assigns when it runs on the fields f
StatementWrites(st, f) ==
    CASE st = "scopes" -> IF ~NilOrEmptySlice(f["Scopes"]) THEN {"Scope"} ELSE {}
      [] st = "types" -> IF ~NilOrEmptySlice(f["ResponseTypes"]) THEN {"ResponseType"} ELSE {}
      [] st = "default" -> IF NilOrEmpty(f["ResponseType"]) THEN {"ResponseType"} ELSE {}
      [] OTHER -> {}

\* the caller fills in the record before it starts a goroutine
Prepare ==
    /\ pc = Idle
    /\ rec.type = "TokenOptions"
    /\ SetField
    /\ UNCHANGED concVars

\* go t.FormData()
GoFormData(g) ==
    /\ pc[g] = "idle"
    /\ pc' = [pc EXCEPT ![g] = "scopes"]
    /\ UNCHANGED <<projVars, ret>>

\* goroutine g runs its next statement of FormData on the shared record
FormDataStatement(g) ==
    /\ pc[g] \in {"scopes", "types", "default", "marshal"}
    /\ rec' = [rec EXCEPT !.f = StatementEffect(pc[g], rec.f)]
    /\ ret' = IF pc[g] = "marshal" THEN [ret EXCEPT ![g] = MarshalToMap(rec)] ELSE ret
    /\ pc' = [pc EXCEPT ![g] = NextStatement(pc[g])]
    /\ UNCHANGED <<res, perr, pop, order, enc, own>>

NextConc ==
    \/ Prepare /\ UNCHANGED <<soaVars, polVars>>
    \/ \E g \in Goroutines : GoFormData(g) /\ UNCHANGED <<soaVars, polVars>>
    \/ \E g \in Goroutines : FormDataStatement(g) /\ UNCHANGED <<soaVars, polVars>>

-----------------------------------------------------------------------------
(* PolicyRepresentation *)

\* the kind-specific fields ToConfig reads: the lists of identifiers, the lists of
\* definitions, and the scalars
IDListFields == {"Clients", "Users", "Policies"}

\* the time bounds, in the order ToConfig stores them, with their Config keys
TimeFields == <<
    [name |-> "NotBefore", key |-> <<"n", "b", "f">>],
    [name |-> "NotOnOrAfter", key |-> <<"n", "o", "a">>],
    [name |-> "DayMonth", key |-> <<"d", "a", "y", "M", "o", "n", "t", "h">>],
    [name |-> "DayMonthEnd", key |-> <<"d", "a", "y", "M", "o", "n", "t", "h", "E", "n", "d">>],
    [name |-> "Month", key |-> <<"m", "o", "n", "t", "h">>],
    [name |-> "MonthEnd", key |-> <<"m", "o", "n", "t", "h", "E", "n", "d">>],
    [name |-> "Year", key |-> <<"y", "e", "a", "r">>],
    [name |-> "YearEnd", key |-> <<"y", "e", "a", "r", "E", "n", "d">>],
    [name |-> "Hour", key |-> <<"h", "o", "u", "r">>],
    [name |-> "HourEnd", key |-> <<"h", "o", "u", "r", "E", "n", "d">>],
    [name |-> "Minute", key |-> <<"m", "i", "n", "u", "t", "e">>],
    [name |-> "MinuteEnd", key |-> <<"m", "i", "n", "u", "t", "e", "E", "n", "d">>]
>>

PolicyFieldNames ==
    IDListFields \cup {"Roles", "Groups", "Code", "GroupsClaim"}
        \cup {TimeFields[i].name : i \in 1..Len(TimeFields)}

ZeroPolicy == [n \in PolicyFieldNames |-> NilP]

RoleDefinition(id, required) == [ID |-> id, Required |-> required]
GroupDefinition(id, extendChildren) == [ID |-> id, ExtendChildren |-> extendChildren]

\* the values callers give to the kind-specific fields
RoleValues ==
    {<<>>,
     <<RoleDefinition(StringP(<<"r", "1">>), BoolP(TRUE)), RoleDefinition(StringP(<<"r", "2">>), NilP)>>,
     <<RoleDefinition(NilP, BoolP(TRUE)), RoleDefinition(StringP(<<"r", "2">>), BoolP(FALSE))>>}
GroupValues ==
    {<<>>,
     <<GroupDefinition(StringP(<<"g", "1">>), BoolP(TRUE)), GroupDefinition(StringP(<<"g", "2">>), NilP)>>,
     <<GroupDefinition(NilP, BoolP(TRUE)), GroupDefinition(StringP(<<"g", "2">>), BoolP(FALSE))>>}

PolicyValuesOf(n) ==
    CASE n = "Roles" -> {SliceP(x) : x \in RoleValues}
      [] n = "Groups" -> {SliceP(x) : x \in GroupValues}
      [] n \in IDListFields -> {SliceP(x) : x \in ListValues}
      [] n \in {"Code", "GroupsClaim"} -> {StringP(x) : x \in StrValues}
      [] OTHER -> {StringP(<<"a", "\"", "\\">>)}

NumSetPolicy(p) == Cardinality({n \in DOMAIN p : p[n].set})

KeyClients == <<"c", "l", "i", "e", "n", "t", "s">>
KeyRoles == <<"r", "o", "l", "e", "s">>
KeyCode == <<"c", "o", "d", "e">>
KeyUsers == <<"u", "s", "e", "r", "s">>
KeyApplyPolicies == <<"a", "p", "p", "l", "y", "P", "o", "l", "i", "c", "i", "e", "s">>
KeyGroups == <<"g", "r", "o", "u", "p", "s">>
KeyGroupsClaim == <<"g", "r", "o", "u", "p", "s", "C", "l", "a", "i", "m">>

\* the Configs a caller gives a policy: nil, empty, and one with entries of its own
ConfigValues ==
    {NilMap, Map(<<>>),
     Map(KeyClients :> <<"x">> @@ KeyCode :> <<"x">> @@ <<"k">> :> <<"v">>)}

\* config[k] += v
Put_Append(m, k, v) ==
    [x \in DOMAIN m \cup {k} |-> IF x = k THEN (IF k \in DOMAIN m THEN m[k] \o v ELSE v) ELSE m[x]]

\* config[k] = v
Put(m, k, v) == [x \in DOMAIN m \cup {k} |-> IF x = k THEN v ELSE m[x]]

\* p != nil, without the test of the length
Populated_NonNil(v) == v.set

\* p != nil && len(*p) > 0
Populated(v) == v.set /\ Len(v.l) > 0

\* strings.Join(parts, ",")
RECURSIVE StringsJoin(_)
StringsJoin(parts) ==
    IF parts = <<>> THEN <<>>
    ELSE IF Len(parts) = 1 THEN parts[1]
    ELSE parts[1] \o <<",">> \o StringsJoin(Tail(parts))

\* fmt.Sprintf("[%s]", strings.Join(parts, ","))
ArrayLiteral(parts) == <<"[">> \o StringsJoin(parts) \o <<"]">>

\* fmt.Sprintf(`"%s"`, id)
QuotedID(id) == <<"\"">> \o id \o <<"\"">>

\* the slot of one role, with the required member left out when Required is nil
RoleSlot_OmitAbsent(role) ==
    IF role.ID.set
    THEN IF role.Required.set
         THEN <<"{", "\"", "i", "d", "\"", ":", "\"">> \o role.ID.s \o <<"\"", ",", "\"", "r", "e", "q", "u", "i", "r", "e", "d", "\"", ":">>
              \o (IF role.Required.b THEN <<"t", "r", "u", "e">> ELSE <<"f", "a", "l", "s", "e">>)
              \o <<"}">>
         ELSE <<"{", "\"", "i", "d", "\"", ":", "\"">> \o role.ID.s \o <<"\"", "}">>
    ELSE <<>>

\* the slot of one role: the zero value of the made slice stays where the role has no ID
RoleSlot(role) ==
    IF role.ID.set
    THEN <<"{", "\"", "i", "d", "\"", ":", "\"">> \o role.ID.s \o <<"\"", ",", "\"", "r", "e", "q", "u", "i", "r", "e", "d", "\"", ":">>
         \o (IF role.Required.set /\ role.Required.b THEN <<"t", "r", "u", "e">>
             ELSE <<"f", "a", "l", "s", "e">>) \o <<"}">>
    ELSE <<>>

\* the slot of one group
GroupSlot(group) ==
    IF group.ID.set
    THEN <<"{", "\"", "i", "d", "\"", ":", "\"">> \o group.ID.s \o <<"\"", ",", "\"", "e", "x", "t", "e", "n", "d", "C", "h", "i", "l", "d", "r", "e", "n", "\"", ":">>
         \o (IF group.ExtendChildren.set /\ group.ExtendChildren.b THEN <<"t", "r", "u", "e">>
             ELSE <<"f", "a", "l", "s", "e">>) \o <<"}">>
    ELSE <<>>

PutIDList(c, v, k) ==
    IF Populated(v) THEN Put(c, k, ArrayLiteral([i \in 1..Len(v.l) |-> QuotedID(v.l[i])])) ELSE c

PutClients(p, c) == PutIDList(c, p["Clients"], KeyClients)

PutRoles(p, c) ==
    IF Populated(p["Roles"])
    THEN Put(c, KeyRoles, ArrayLiteral([i \in 1..Len(p["Roles"].l) |-> RoleSlot(p["Roles"].l[i])]))
    ELSE c

\* a scalar stored only when it is not empty
PutScalar_SkipEmpty(c, v, k) == IF v.set /\ Len(v.s) > 0 THEN Put(c, k, v.s) ELSE c

\* if p.X != nil { config[k] = *p.X }
PutScalar(c, v, k) == IF v.set THEN Put(c, k, v.s) ELSE c

PutCode(p, c) == PutScalar(c, p["Code"], KeyCode)

PutUsers(p, c) == PutIDList(c, p["Users"], KeyUsers)

PutPolicies(p, c) == PutIDList(c, p["Policies"], KeyApplyPolicies)

PutGroups(p, c) ==
    IF Populated(p["Groups"])
    THEN Put(c, KeyGroups, ArrayLiteral([i \in 1..Len(p["Groups"].l) |-> GroupSlot(p["Groups"].l[i])]))
    ELSE c

PutGroupsClaim(p, c) == PutScalar(c, p["GroupsClaim"], KeyGroupsClaim)

\* the time bounds from the i-th on
RECURSIVE PutTimes(_, _, _)
PutTimes(p, c, i) ==
    IF i > Len(TimeFields) THEN c
    ELSE PutTimes(p, PutScalar(c, p[TimeFields[i].name], TimeFields[i].key), i + 1)

\* a Config that is always started anew
ConfigOrEmpty_Fresh(c) == <<>>

\* the nil Config is replaced by an empty one
ConfigOrEmpty(c) == IF c.isNil THEN <<>> ELSE c.m

\* ToConfig: the Config it leaves in p, c the Config p had
ToConfigBag(p, c) ==
    Map(PutTimes(p,
            PutGroupsClaim(p, PutGroups(p, PutPolicies(p, PutUsers(p,
                PutCode(p, PutRoles(p, PutClients(p, ConfigOrEmpty(c)))))))),
            1))

\* the caller assigns a kind-specific field of a policy it has not converted yet
SetPolicyField ==
    /\ kop # "ToConfig"
    /\ \E n \in PolicyFieldNames :
        /\ pol[n].set \/ NumSetPolicy(pol) < MaxSet
        /\ \E v \in PolicyValuesOf(n) :
            /\ v # pol[n]
            /\ pol' = [pol EXCEPT ![n] = v]
    /\ kop' = "set"
    /\ UNCHANGED <<cfg, qcfg>>

\* the caller resets a kind-specific field to nil
ClearPolicyField ==
    /\ kop # "ToConfig"
    /\ \E n \in PolicyFieldNames :
        /\ pol[n].set
        /\ pol' = [pol EXCEPT ![n] = NilP]
    /\ kop' = "clear"
    /\ UNCHANGED <<cfg, qcfg>>

\* the caller assigns Config, and may give the same map to a second policy as well
SetConfig ==
    /\ kop # "ToConfig"
    /\ \E c \in ConfigValues : \E q \in {NilMap, c} :
        /\ c # cfg \/ q # qcfg
        /\ cfg' = c
        /\ qcfg' = q
    /\ kop' = "config"
    /\ UNCHANGED pol

\* p.ToConfig(): `config := *p.Config` copies the map header, not the entries, so the
\* assignments to config write the map a second policy holding it sees
ToConfig ==
    /\ cfg' = ToConfigBag(pol, cfg)
    /\ qcfg' = IF qcfg.isNil THEN qcfg ELSE cfg'
    /\ kop' = "ToConfig"
    /\ UNCHANGED pol

\* the caller drops the policy and constructs a new one
NewPolicy ==
    /\ kop = "ToConfig"
    /\ pol' = ZeroPolicy
    /\ cfg' = NilMap
    /\ qcfg' = NilMap
    /\ kop' = "init"

NextPolicy ==
    \/ SetPolicyField /\ UNCHANGED <<soaVars, projVars, concVars>>
    \/ ClearPolicyField /\ UNCHANGED <<soaVars, projVars, concVars>>
    \/ SetConfig /\ UNCHANGED <<soaVars, projVars, concVars>>
    \/ ToConfig /\ UNCHANGED <<soaVars, projVars, concVars>>
    \/ NewPolicy /\ UNCHANGED <<soaVars, projVars, concVars>>

-----------------------------------------------------------------------------
(* Specifications *)

\* a caller holding any StringOrArray value, beside an idle record
InitScalar ==
    /\ soa \in SliceValues
    /\ data = <<>>
    /\ origin = NoOrigin
    /\ err = NoErr
    /\ op = "init"
    /\ es = <<>>
    /\ qcfg = NilMap
    /\ pc = Idle
    /\ ret = NoReturn
    /\ rec = ZeroRecord("GetUsersParams")
    /\ own = rec
    /\ res = NilMap
    /\ perr = NoErr
    /\ pop = "init"
    /\ order = <<>>
    /\ enc = <<>>
    /\ pol = ZeroPolicy
    /\ cfg = NilMap
    /\ kop = "init"

\* a caller holding a newly constructed option record of any type, beside an idle scalar
InitProj ==
    /\ rec \in {ZeroRecord(t) : t \in RecordTypes}
    /\ res = NilMap
    /\ perr = NoErr
    /\ pop = "init"
    /\ order = <<>>
    /\ soa = NilSlice
    /\ data = <<>>
    /\ origin = NoOrigin
    /\ err = NoErr
    /\ op = "init"
    /\ es = <<>>
    /\ own = rec
    /\ qcfg = NilMap
    /\ pc = Idle
    /\ ret = NoReturn
    /\ enc = <<>>
    /\ pol = ZeroPolicy
    /\ cfg = NilMap
    /\ kop = "init"

SpecScalar == InitScalar /\ [][NextScalar]_vars

\* a caller holding an EnforcedString, empty or already set, beside an idle record
InitText ==
    /\ soa = NilSlice
    /\ data = <<>>
    /\ origin = NoOrigin
    /\ err = NoErr
    /\ op = "init"
    /\ es \in {<<>>, <<"x">>}
    /\ qcfg = NilMap
    /\ pc = Idle
    /\ ret = NoReturn
    /\ rec = ZeroRecord("GetUsersParams")
    /\ own = rec
    /\ res = NilMap
    /\ perr = NoErr
    /\ pop = "init"
    /\ order = <<>>
    /\ enc = <<>>
    /\ pol = ZeroPolicy
    /\ cfg = NilMap
    /\ kop = "init"

SpecText == InitText /\ [][NextText]_vars

SpecProj == InitProj /\ [][NextProj]_vars

\* a caller holding a newly constructed policy, beside an idle record and an idle scalar
InitPolicy ==
    /\ pol = ZeroPolicy
    /\ cfg = NilMap
    /\ kop = "init"
    /\ soa = NilSlice
    /\ data = <<>>
    /\ origin = NoOrigin
    /\ err = NoErr
    /\ op = "init"
    /\ es = <<>>
    /\ qcfg = NilMap
    /\ pc = Idle
    /\ ret = NoReturn
    /\ rec = ZeroRecord("GetUsersParams")
    /\ own = rec
    /\ res = NilMap
    /\ perr = NoErr
    /\ pop = "init"
    /\ order = <<>>
    /\ enc = <<>>

SpecPolicy == InitPolicy /\ [][NextPolicy]_vars

\* a caller holding a newly constructed TokenOptions and two goroutines not yet started
InitConc ==
    /\ rec = ZeroRecord("TokenOptions")
    /\ own = rec
    /\ res = NilMap
    /\ perr = NoErr
    /\ pop = "init"
    /\ order = <<>>
    /\ enc = <<>>
    /\ pc = Idle
    /\ ret = NoReturn
    /\ soa = NilSlice
    /\ data = <<>>
    /\ origin = NoOrigin
    /\ err = NoErr
    /\ op = "init"
    /\ es = <<>>
    /\ pol = ZeroPolicy
    /\ cfg = NilMap
    /\ qcfg = NilMap
    /\ kop = "init"

SpecConc == InitConc /\ [][NextConc]_vars

-----------------------------------------------------------------------------
(* Claims about StringOrArray *)

\* the JSON shape of a payload, "invalid" when it is not one JSON value
Shape(d) == IF Scan(d).ok THEN Scan(d).v.kind ELSE "invalid"

IsBareString(d) ==
    /\ Shape(d) = "string"
    /\ d[1] = "\""
    /\ d[Len(d)] = "\""

IsArrayOfStrings(d) ==
    /\ Shape(d) = "array"
    /\ \A i \in 1..Len(Scan(d).v.items) : Scan(d).v.items[i].kind = "string"

IsEmptyArray(d) ==
    /\ Shape(d) = "array"
    /\ Scan(d).v.items = <<>>
    /\ d[1] = "["

\* C1: a sequence of exactly one text value is encoded as a bare JSON string, and
\* decoding that output gives the same one-element sequence back.
C1_SingleRoundTrip ==
    /\ (op = "marshal" /\ Len(soa.elems) = 1) =>
           err = NoErr /\ IsBareString(data)
    /\ (op = "unmarshal" /\ origin.has /\ Len(origin.v.elems) = 1) =>
           err = NoErr /\ soa = origin.v

C1_Witness ==
    /\ op = "unmarshal"
    /\ origin.has
    /\ origin.v.elems = << <<"[">> >>
    /\ data = <<"\"", "[", "\"">>
    /\ soa = origin.v

\* C2: a sequence of two or more text values is encoded as a JSON array, and decoding
\* that output gives the same elements in the same order.
C2_MultiRoundTrip ==
    /\ (op = "marshal" /\ Len(soa.elems) >= 2) =>
           err = NoErr /\ IsArrayOfStrings(data) /\ data[1] = "["
    /\ (op = "unmarshal" /\ origin.has /\ Len(origin.v.elems) >= 2) =>
           err = NoErr /\ soa = origin.v

C2_Witness ==
    /\ op = "unmarshal"
    /\ origin.has
    /\ origin.v.elems = << <<"\"">>, <<"[">> >>
    /\ soa = origin.v

\* C3 (as claimed): UnmarshalJSON returns an error for a payload that is a JSON number,
\* object, boolean or null, and returns a sequence only for a JSON string or a JSON
\* array of strings.
C3_OnlyStringOrArray ==
    op = "unmarshal" =>
        /\ Shape(data) \in {"number", "object", "true", "false", "null"} => err # NoErr
        /\ err = NoErr => (Shape(data) = "string" \/ IsArrayOfStrings(data))

\* C4 (as claimed): encoding a sequence without elements is an error, and the encoder
\* never emits [] for it.
C4_EmptyIsError ==
    (op = "marshal" /\ Len(soa.elems) = 0) =>
        err # NoErr /\ data # <<"[", "]">>

\* C4 (amended): encoding a sequence without elements returns no error; the output is
\* [] for an empty sequence and null for a nil one.
C4_EmptyEncodes ==
    (op = "marshal" /\ Len(soa.elems) = 0) =>
        /\ err = NoErr
        /\ data = IF soa.isNil THEN <<"n", "u", "l", "l">> ELSE <<"[", "]">>

C4_Witness ==
    /\ op = "marshal"
    /\ soa = Slice(<<>>)
    /\ err = NoErr
    /\ data = <<"[", "]">>

\* C5 (as claimed): every sequence UnmarshalJSON returns without error is non-empty.
C5_DecodedNonEmpty ==
    (op = "unmarshal" /\ err = NoErr) => Len(soa.elems) >= 1

\* C5 (amended): a payload that is a JSON array without elements decodes without error
\* to the zero-length sequence; every other sequence returned without error is non-empty.
C5_EmptyOnlyFromEmptyArray ==
    op = "unmarshal" =>
        /\ IsEmptyArray(data) => (err = NoErr /\ soa = Slice(<<>>))
        /\ (err = NoErr /\ ~IsEmptyArray(data)) => Len(soa.elems) >= 1

C5_Witness ==
    /\ op = "unmarshal"
    /\ ~origin.has
    /\ data = <<"[", " ", "]">>
    /\ err = NoErr
    /\ soa = Slice(<<>>)

-----------------------------------------------------------------------------
(* Claims about the projection of option records *)

Projected == pop = "GetQueryParams" /\ perr = NoErr

TheFields == FieldsOf(rec.type)

\* a field of GetGroupsParams that MarshalJSON derives from its set counterpart
Derived(fd) ==
    /\ rec.type = "GetGroupsParams"
    /\ \/ fd.name = "Full" /\ rec.f["BriefRepresentation"].set
       \/ fd.name = "BriefRepresentation" /\ ~rec.f["BriefRepresentation"].set /\ rec.f["Full"].set

WireKeys == {TheFields[i].key : i \in {j \in 1..Len(TheFields) : ~TheFields[j].dash}}

\* C6 (as claimed): the result of GetQueryParams has no entry for a field that is absent
\* and marked omit-if-absent, exactly one entry under its wire key for every field that is
\* present, and is an empty mapping without error when all fields are absent.
C6_EntriesOfPresentFields ==
    /\ Projected =>
        /\ \A i \in 1..Len(TheFields) :
            ~TheFields[i].dash =>
                /\ (~rec.f[TheFields[i].name].set /\ TheFields[i].omitempty)
                       => TheFields[i].key \notin DOMAIN res.m
                /\ rec.f[TheFields[i].name].set => TheFields[i].key \in DOMAIN res.m
        /\ DOMAIN res.m \subseteq WireKeys
    /\ (pop = "GetQueryParams" /\ NumSet(rec) = 0) =>
        perr = NoErr /\ ~res.isNil /\ DOMAIN res.m = {}

\* C6 (amended): as claimed, except that for GetGroupsParams the absent one of
\* BriefRepresentation and Full does get an entry when the other one is set.
C6_EntriesExceptDerived ==
    /\ Projected =>
        /\ \A i \in 1..Len(TheFields) :
            ~TheFields[i].dash =>
                /\ (~rec.f[TheFields[i].name].set /\ TheFields[i].omitempty /\ ~Derived(TheFields[i]))
                       => TheFields[i].key \notin DOMAIN res.m
                /\ (rec.f[TheFields[i].name].set \/ Derived(TheFields[i]))
                       => TheFields[i].key \in DOMAIN res.m
        /\ DOMAIN res.m \subseteq WireKeys
    /\ (pop = "GetQueryParams" /\ NumSet(rec) = 0) =>
        perr = NoErr /\ ~res.isNil /\ DOMAIN res.m = {}

C6_Witness ==
    /\ Projected
    /\ rec.type = "GetGroupsParams"
    /\ rec.f["BriefRepresentation"].set
    /\ rec.f["Max"].set
    /\ ~rec.f["Full"].set
    /\ DOMAIN res.m = {<<"m", "a", "x">>, <<"f", "u", "l", "l">>,
                       GetGroupsParamsFields[1].key}

KeyMax == <<"m", "a", "x">>
KeySearch == <<"s", "e", "a", "r", "c", "h">>

\* the GetUsersParams record with Max = 10, Search = search and nothing else
MaxTenAnd(search) ==
    [type |-> "GetUsersParams",
     f |-> [ZeroRecord("GetUsersParams").f EXCEPT !["Max"] = IntP(10), !["Search"] = search]]

\* C7 (as claimed): projecting the record whose max is 10 and whose search is the empty
\* string yields exactly {"max": "10"}.
C7_EmptySearchOmitted ==
    (pop = "GetQueryParams" /\ rec = MaxTenAnd(StringP(<<>>))) =>
        perr = NoErr /\ res = Map(KeyMax :> <<"1", "0">>)

\* C7 (amended): projecting the record whose max is 10 and whose search is unset yields
\* exactly {"max": "10"}; a search set to the empty string is present and yields
\* {"max": "10", "search": ""}.
C7_NilSearchOmitted ==
    /\ (pop = "GetQueryParams" /\ rec = MaxTenAnd(NilP)) =>
           perr = NoErr /\ res = Map(KeyMax :> <<"1", "0">>)
    /\ (pop = "GetQueryParams" /\ rec = MaxTenAnd(StringP(<<>>))) =>
           perr = NoErr /\ res = Map(KeyMax :> <<"1", "0">> @@ KeySearch :> <<>>)

C7_Witness ==
    /\ pop = "GetQueryParams"
    /\ rec = MaxTenAnd(StringP(<<>>))
    /\ DOMAIN res.m = {KeyMax, KeySearch}

TrueText == <<"t", "r", "u", "e">>
FalseText == <<"f", "a", "l", "s", "e">>

DecimalText(n) ==
    CASE n = 10 -> <<"1", "0">>
      [] n = -7 -> <<"-", "7">>

\* C8: in the result of GetQueryParams a present boolean field marked stringify has the
\* text true or false (that of its value, unless GetGroupsParams derives the field), a
\* present integer field marked stringify has its base-10 text, and a present text field
\* has its value unmodified.
C8_Rendering ==
    Projected =>
        \A i \in 1..Len(TheFields) :
            (~TheFields[i].dash /\ rec.f[TheFields[i].name].set) =>
                /\ TheFields[i].key \in DOMAIN res.m
                /\ (TheFields[i].typ = "bool" /\ TheFields[i].quoted) =>
                       /\ res.m[TheFields[i].key] \in {TrueText, FalseText}
                       /\ ~Derived(TheFields[i]) =>
                              res.m[TheFields[i].key] =
                                  IF rec.f[TheFields[i].name].b THEN TrueText ELSE FalseText
                /\ (TheFields[i].typ = "int" /\ TheFields[i].quoted) =>
                       res.m[TheFields[i].key] = DecimalText(rec.f[TheFields[i].name].n)
                /\ TheFields[i].typ = "string" =>
                       res.m[TheFields[i].key] = rec.f[TheFields[i].name].s

C8_Witness ==
    /\ Projected
    /\ rec.type = "GetUsersParams"
    /\ rec.f["Enabled"] = BoolP(FALSE)
    /\ rec.f["Q"] = StringP(<<"a", "\"", "\\">>)
    /\ res.m[<<"q">>] = <<"a", "\"", "\\">>
    /\ res.m[<<"e", "n", "a", "b", "l", "e", "d">>] = FalseText

\* a set field that is neither text nor stringified
Unrenderable ==
    \E i \in 1..Len(TheFields) :
        /\ ~TheFields[i].dash
        /\ rec.f[TheFields[i].name].set
        /\ TheFields[i].typ # "string"
        /\ ~TheFields[i].quoted

\* C9 (as claimed): when a set field cannot be rendered as text, GetQueryParams and every
\* FormData method return an error and no mapping.
C9_UnrenderableIsError ==
    (pop \in {"GetQueryParams", "FormData"} /\ Unrenderable) =>
        perr # NoErr /\ res.isNil

\* the wire keys of the result, in field declaration order
DeclaredOrder ==
    SelectSeq([i \in 1..Len(TheFields) |-> TheFields[i].key], LAMBDA k : k \in DOMAIN res.m)

\* C10 (as claimed): the entries of the returned mapping are ordered by field declaration
\* order, so serializing it gives that key order every time.
C10_DeclarationOrder ==
    pop = "range" => order = DeclaredOrder

\* the wire keys of the fields that are present, or derived by GetGroupsParams
PresentKeys ==
    {TheFields[i].key : i \in {j \in 1..Len(TheFields) :
        ~TheFields[j].dash /\ (rec.f[TheFields[j].name].set \/ Derived(TheFields[j]))}}

\* C10 (amended): the returned mapping is a Go map without an order of its own: a range
\* over it yields the wire key of every present field exactly once and nothing else, in
\* an order that need not be the declaration order.
C10_EachKeyOnce ==
    pop = "range" =>
        /\ Range(order) = PresentKeys
        /\ Len(order) = Cardinality(PresentKeys)

C10_Witness ==
    /\ pop = "range"
    /\ rec.type = "GetUsersParams"
    /\ rec.f["First"].set
    /\ rec.f["Max"].set
    /\ order = <<KeyMax, <<"f", "i", "r", "s", "t">> >>

-----------------------------------------------------------------------------
(* Claims about TokenOptions.FormData *)

KeyScope == <<"s", "c", "o", "p", "e">>
KeyResponseType == <<"r", "e", "s", "p", "o", "n", "s", "e", "_", "t", "y", "p", "e">>

\* the elements of a list callers pass, joined by single spaces
SpacedText(l) ==
    CASE l = << <<"a">>, <<"b">> >> -> <<"a", " ", "b">>
      [] l = <<>> -> <<>>

\* the keys a plural field could be projected under
PluralKeys ==
    {<<"s", "c", "o", "p", "e", "s">>, <<"S", "c", "o", "p", "e", "s">>,
     <<"r", "e", "s", "p", "o", "n", "s", "e", "_", "t", "y", "p", "e", "s">>,
     <<"R", "e", "s", "p", "o", "n", "s", "e", "T", "y", "p", "e", "s">>, <<"-">>}

TokenFormData == pop' = "FormData" /\ rec.type = "TokenOptions"

HasElements(v) == v.set /\ Len(v.l) > 0
Explicit(v) == v.set /\ Len(v.s) > 0

\* C11: when Scopes (resp. ResponseTypes) is non-empty, TokenOptions.FormData emits its
\* elements joined in order by single spaces under scope (resp. response_type), and the
\* result never has an entry for a plural field.
C11_PluralJoined ==
    [][TokenFormData =>
        /\ HasElements(rec.f["Scopes"]) =>
               /\ KeyScope \in DOMAIN res'.m
               /\ res'.m[KeyScope] = SpacedText(rec.f["Scopes"].l)
        /\ HasElements(rec.f["ResponseTypes"]) =>
               /\ KeyResponseType \in DOMAIN res'.m
               /\ res'.m[KeyResponseType] = SpacedText(rec.f["ResponseTypes"].l)
        /\ ~res'.isNil
        /\ DOMAIN res'.m \cap PluralKeys = {}]_vars

C11_Witness ==
    /\ pop = "FormData"
    /\ rec.type = "TokenOptions"
    /\ rec.f["Scopes"] = SliceP(<< <<"a">>, <<"b">> >>)
    /\ rec.f["ClientID"].set
    /\ res.m[KeyScope] = <<"a", " ", "b">>
    /\ DOMAIN res.m = {KeyScope, KeyResponseType, <<"c", "l", "i", "e", "n", "t", "_", "i", "d">>}

\* C12 (as claimed): when Scope (resp. ResponseType) has an explicit value, the emitted
\* scope (resp. response_type) is that value, also when the plural sequence is non-empty.
C12_ExplicitNotOverwritten ==
    [][TokenFormData =>
        /\ Explicit(rec.f["Scope"]) =>
               KeyScope \in DOMAIN res'.m /\ res'.m[KeyScope] = rec.f["Scope"].s
        /\ Explicit(rec.f["ResponseType"]) =>
               KeyResponseType \in DOMAIN res'.m
               /\ res'.m[KeyResponseType] = rec.f["ResponseType"].s]_vars

\* C12 (amended): an explicit Scope (resp. ResponseType) is emitted as it is when the
\* plural sequence is nil or empty; when the plural sequence is non-empty the join of the
\* plural sequence replaces it.
C12_ExplicitKeptWithoutPlural ==
    [][TokenFormData =>
        /\ Explicit(rec.f["Scope"]) =>
               /\ KeyScope \in DOMAIN res'.m
               /\ res'.m[KeyScope] =
                      IF HasElements(rec.f["Scopes"]) THEN SpacedText(rec.f["Scopes"].l)
                      ELSE rec.f["Scope"].s
               /\ HasElements(rec.f["Scopes"]) => rec'.f["Scope"].s = SpacedText(rec.f["Scopes"].l)
        /\ Explicit(rec.f["ResponseType"]) =>
               /\ KeyResponseType \in DOMAIN res'.m
               /\ res'.m[KeyResponseType] =
                      IF HasElements(rec.f["ResponseTypes"])
                      THEN SpacedText(rec.f["ResponseTypes"].l)
                      ELSE rec.f["ResponseType"].s]_vars

C12_Witness ==
    /\ pop = "FormData"
    /\ rec.type = "TokenOptions"
    /\ rec.f["Scope"] = StringP(<<"a", "\"", "\\">>)
    /\ rec.f["Scopes"] = SliceP(<<>>)
    /\ res.m[KeyScope] = <<"a", "\"", "\\">>

-----------------------------------------------------------------------------
(* Claims about GetGroupsParams.MarshalJSON *)

KeyBrief == <<"b", "r", "i", "e", "f", "R", "e", "p", "r", "e", "s", "e", "n", "t", "a", "t", "i", "o", "n">>
KeyFull == <<"f", "u", "l", "l">>

\* the members of an encoded object d, and the text of the member with key k
EncodedKeys(d) == Range(Scan(d).v.keys)
EncodedText(d, k) ==
    Scan(d).v.items[CHOOSE i \in 1..Len(Scan(d).v.keys) : Scan(d).v.keys[i] = k].str

TextOf(b) == IF b THEN TrueText ELSE FalseText

\* C13: the encoding of GetGroupsParams has, with BriefRepresentation set, full as the
\* negation of BriefRepresentation whatever Full the caller set; with BriefRepresentation
\* unset and Full set, briefRepresentation as the negation of Full; with both unset,
\* neither key.
C13_Aliasing ==
    pop = "MarshalJSON" =>
        /\ Scan(enc).ok
        /\ Scan(enc).v.kind = "object"
        /\ rec.f["BriefRepresentation"].set =>
               /\ {KeyBrief, KeyFull} \subseteq EncodedKeys(enc)
               /\ EncodedText(enc, KeyBrief) = TextOf(rec.f["BriefRepresentation"].b)
               /\ EncodedText(enc, KeyFull) = TextOf(~rec.f["BriefRepresentation"].b)
        /\ (~rec.f["BriefRepresentation"].set /\ rec.f["Full"].set) =>
               /\ {KeyBrief, KeyFull} \subseteq EncodedKeys(enc)
               /\ EncodedText(enc, KeyFull) = TextOf(rec.f["Full"].b)
               /\ EncodedText(enc, KeyBrief) = TextOf(~rec.f["Full"].b)
        /\ (~rec.f["BriefRepresentation"].set /\ ~rec.f["Full"].set) =>
               EncodedKeys(enc) \cap {KeyBrief, KeyFull} = {}

C13_Witness ==
    /\ pop = "MarshalJSON"
    /\ rec.f["BriefRepresentation"] = BoolP(TRUE)
    /\ rec.f["Full"] = BoolP(TRUE)
    /\ enc = <<"{", "\"", "b", "r", "i", "e", "f", "R", "e", "p", "r", "e", "s", "e", "n", "t", "a", "t", "i", "o", "n", "\"", ":", "\"", "t", "r", "u", "e", "\"", ",", "\"", "f", "u", "l", "l", "\"", ":", "\"", "f", "a", "l", "s", "e", "\"", "}">>

\* C14: whatever mutations and encodings came before, an encoding leaves the record as
\* the caller set it, so that no derived value outlives it; its output has the two keys
\* exactly when the record, as it is at that moment, has one of the two fields set, and
\* then the two are negations of each other.
C14_NoStaleDerivedValue ==
    [][pop' = "MarshalJSON" =>
        /\ rec' = rec
        /\ (KeyBrief \in EncodedKeys(enc')) =
               (rec'.f["BriefRepresentation"].set \/ rec'.f["Full"].set)
        /\ (KeyFull \in EncodedKeys(enc')) =
               (rec'.f["BriefRepresentation"].set \/ rec'.f["Full"].set)
        /\ {KeyBrief, KeyFull} \subseteq EncodedKeys(enc') =>
               /\ {EncodedText(enc', KeyBrief), EncodedText(enc', KeyFull)} = {TrueText, FalseText}
               /\ rec'.f["BriefRepresentation"].set =>
                      EncodedText(enc', KeyBrief) = TextOf(rec'.f["BriefRepresentation"].b)
               /\ rec'.f["Full"].set /\ ~rec'.f["BriefRepresentation"].set =>
                      EncodedText(enc', KeyFull) = TextOf(rec'.f["Full"].b)]_vars

C14_Witness ==
    /\ pop = "MarshalJSON"
    /\ ~rec.f["BriefRepresentation"].set
    /\ rec.f["Full"] = BoolP(FALSE)
    /\ rec.f["Max"] = IntP(10)
    /\ enc = <<"{", "\"", "b", "r", "i", "e", "f", "R", "e", "p", "r", "e", "s", "e", "n", "t", "a", "t", "i", "o", "n", "\"", ":", "\"", "t", "r", "u", "e", "\"", ",", "\"", "f", "u", "l", "l", "\"", ":", "\"", "f", "a", "l", "s", "e", "\"", ",", "\"", "m", "a", "x", "\"", ":", "\"", "1", "0", "\"", "}">>

-----------------------------------------------------------------------------
(* Claims about PolicyRepresentation.ToConfig *)

\* the Config key each kind-specific field is stored under
ConfigKey(n) ==
    CASE n = "Clients" -> <<"c", "l", "i", "e", "n", "t", "s">>
      [] n = "Users" -> <<"u", "s", "e", "r", "s">>
      [] n = "Policies" -> <<"a", "p", "p", "l", "y", "P", "o", "l", "i", "c", "i", "e", "s">>
      [] n = "Roles" -> <<"r", "o", "l", "e", "s">>
      [] n = "Groups" -> <<"g", "r", "o", "u", "p", "s">>
      [] n = "Code" -> <<"c", "o", "d", "e">>
      [] n = "GroupsClaim" -> <<"g", "r", "o", "u", "p", "s", "C", "l", "a", "i", "m">>
      [] n = "NotBefore" -> <<"n", "b", "f">>
      [] n = "NotOnOrAfter" -> <<"n", "o", "a">>
      [] n = "DayMonth" -> <<"d", "a", "y", "M", "o", "n", "t", "h">>
      [] n = "DayMonthEnd" -> <<"d", "a", "y", "M", "o", "n", "t", "h", "E", "n", "d">>
      [] n = "Month" -> <<"m", "o", "n", "t", "h">>
      [] n = "MonthEnd" -> <<"m", "o", "n", "t", "h", "E", "n", "d">>
      [] n = "Year" -> <<"y", "e", "a", "r">>
      [] n = "YearEnd" -> <<"y", "e", "a", "r", "E", "n", "d">>
      [] n = "Hour" -> <<"h", "o", "u", "r">>
      [] n = "HourEnd" -> <<"h", "o", "u", "r", "E", "n", "d">>
      [] n = "Minute" -> <<"m", "i", "n", "u", "t", "e">>
      [] n = "MinuteEnd" -> <<"m", "i", "n", "u", "t", "e", "E", "n", "d">>

ListKinds == {"Clients", "Users", "Policies", "Roles", "Groups"}
ScalarKinds == {"Code", "GroupsClaim", "NotBefore", "NotOnOrAfter", "DayMonth", "DayMonthEnd", "Month", "MonthEnd", "Year", "YearEnd", "Hour", "HourEnd", "Minute", "MinuteEnd"}

\* the entries of a Config, none when it is nil
Entries(c) == IF c.isNil THEN <<>> ELSE c.m

NonEmptyList(v) == v.set /\ Len(v.l) > 0

\* the keys of the kind-specific fields that are populated
PopulatedKeys ==
    {ConfigKey(n) : n \in {x \in ListKinds : NonEmptyList(pol[x])}}
        \cup {ConfigKey(n) : n \in {x \in ScalarKinds : pol[x].set}}

\* the entry under k is as it was before the call: absent, or present with its value
Untouched(k) ==
    /\ (k \in DOMAIN cfg'.m) = (k \in DOMAIN Entries(cfg))
    /\ k \in DOMAIN Entries(cfg) => cfg'.m[k] = Entries(cfg)[k]

\* C15: ToConfig applied to a policy it has already been applied to leaves the same
\* Config.
C15_Idempotent ==
    [][(kop = "ToConfig" /\ kop' = "ToConfig") => cfg' = cfg]_vars

C15_Witness ==
    /\ kop = "ToConfig"
    /\ pol["Clients"] = SliceP(<< <<"a">>, <<"b">> >>)
    /\ pol["Code"] = StringP(<<"a", "\"", "\\">>)
    /\ cfg = Map(ConfigKey("Clients") :> <<"[", "\"", "a", "\"", ",", "\"", "b", "\"", "]">> @@ ConfigKey("Code") :> <<"a", "\"", "\\">>)

\* C16 (as claimed): after ToConfig every entry the Config had is still there with the
\* same value, and the keys added are those of the populated kind-specific fields.
C16_Superset ==
    [][kop' = "ToConfig" =>
        /\ ~cfg'.isNil
        /\ \A k \in DOMAIN Entries(cfg) : k \in DOMAIN cfg'.m /\ cfg'.m[k] = Entries(cfg)[k]
        /\ DOMAIN cfg'.m = DOMAIN Entries(cfg) \cup PopulatedKeys]_vars

\* C16 (amended): after ToConfig every entry the Config had under a key that is not the
\* key of a populated kind-specific field is still there with the same value; the keys of
\* the populated fields are set, whether or not the Config had them, and no other key is
\* added.
C16_SupersetExceptPopulated ==
    [][kop' = "ToConfig" =>
        /\ ~cfg'.isNil
        /\ \A k \in DOMAIN Entries(cfg) \ PopulatedKeys :
               k \in DOMAIN cfg'.m /\ cfg'.m[k] = Entries(cfg)[k]
        /\ DOMAIN cfg'.m = DOMAIN Entries(cfg) \cup PopulatedKeys]_vars

C16_Witness ==
    /\ kop = "ToConfig"
    /\ pol["Clients"] = SliceP(<< <<"a">>, <<"b">> >>)
    /\ ~pol["Code"].set
    /\ cfg = Map(ConfigKey("Clients") :> <<"[", "\"", "a", "\"", ",", "\"", "b", "\"", "]">> @@ ConfigKey("Code") :> <<"x">> @@ <<"k">> :> <<"v">>)

AllHaveID(l) == \A i \in 1..Len(l) : l[i].ID.set

KeyID == <<"i", "d">>
KeyRequired == <<"r", "e", "q", "u", "i", "r", "e", "d">>
KeyExtendChildren == <<"e", "x", "t", "e", "n", "d", "C", "h", "i", "l", "d", "r", "e", "n">>

\* the text d is an array literal with one object per definition of l, in order, each
\* with the members id and flagKey, the flag false where the definition has none
ObjectsOf(d, l, flagKey, flags) ==
    /\ Scan(d).ok
    /\ Scan(d).v.kind = "array"
    /\ Len(Scan(d).v.items) = Len(l)
    /\ \A i \in 1..Len(l) :
        /\ Scan(d).v.items[i].kind = "object"
        /\ Scan(d).v.items[i].keys = <<KeyID, flagKey>>
        /\ Scan(d).v.items[i].items[1] = JString(l[i].ID.s)
        /\ Scan(d).v.items[i].items[2] = JBool(flags[i].set /\ flags[i].b)

RolesExample ==
    <<RoleDefinition(StringP(<<"r", "1">>), BoolP(TRUE)), RoleDefinition(StringP(<<"r", "2">>), NilP)>>

\* C17: for a non-empty role (group) list whose entries have ids, ToConfig stores under
\* roles (groups) the array literal of the objects {"id":<id>,"required":<bool>}
\* ({"id":<id>,"extendChildren":<bool>}) in source order, the boolean false where the
\* flag is absent; a policy with a role list and no client list gets no clients entry.
C17_RolesAndGroups ==
    [][kop' = "ToConfig" =>
        /\ (NonEmptyList(pol["Roles"]) /\ AllHaveID(pol["Roles"].l)) =>
               /\ ConfigKey("Roles") \in DOMAIN cfg'.m
               /\ ObjectsOf(cfg'.m[ConfigKey("Roles")], pol["Roles"].l, KeyRequired,
                            [i \in 1..Len(pol["Roles"].l) |-> pol["Roles"].l[i].Required])
               /\ ~NonEmptyList(pol["Clients"]) => Untouched(ConfigKey("Clients"))
        /\ pol["Roles"].l = RolesExample =>
               cfg'.m[ConfigKey("Roles")] = <<"[", "{", "\"", "i", "d", "\"", ":", "\"", "r", "1", "\"", ",", "\"", "r", "e", "q", "u", "i", "r", "e", "d", "\"", ":", "t", "r", "u", "e", "}", ",", "{", "\"", "i", "d", "\"", ":", "\"", "r", "2", "\"", ",", "\"", "r", "e", "q", "u", "i", "r", "e", "d", "\"", ":", "f", "a", "l", "s", "e", "}", "]">>
        /\ (NonEmptyList(pol["Groups"]) /\ AllHaveID(pol["Groups"].l)) =>
               /\ ConfigKey("Groups") \in DOMAIN cfg'.m
               /\ ObjectsOf(cfg'.m[ConfigKey("Groups")], pol["Groups"].l, KeyExtendChildren,
                            [i \in 1..Len(pol["Groups"].l) |-> pol["Groups"].l[i].ExtendChildren])]_vars

C17_Witness ==
    /\ kop = "ToConfig"
    /\ pol["Roles"] = SliceP(RolesExample)
    /\ ~pol["Clients"].set
    /\ cfg = Map(ConfigKey("Roles") :> <<"[", "{", "\"", "i", "d", "\"", ":", "\"", "r", "1", "\"", ",", "\"", "r", "e", "q", "u", "i", "r", "e", "d", "\"", ":", "t", "r", "u", "e", "}", ",", "{", "\"", "i", "d", "\"", ":", "\"", "r", "2", "\"", ",", "\"", "r", "e", "q", "u", "i", "r", "e", "d", "\"", ":", "f", "a", "l", "s", "e", "}", "]">>)

\* the definitions of l that have an id
WithID(l) == SelectSeq(l, LAMBDA x : x.ID.set)

\* C18 (as claimed): a role or group entry without id is skipped: the value stored is the
\* array literal of the entries that have an id, in order, with no empty slot.
C18_EntriesWithoutIDSkipped ==
    [][kop' = "ToConfig" =>
        /\ NonEmptyList(pol["Roles"]) =>
               /\ ConfigKey("Roles") \in DOMAIN cfg'.m
               /\ ObjectsOf(cfg'.m[ConfigKey("Roles")], WithID(pol["Roles"].l), KeyRequired,
                            [i \in 1..Len(WithID(pol["Roles"].l)) |-> WithID(pol["Roles"].l)[i].Required])
        /\ NonEmptyList(pol["Groups"]) =>
               /\ ConfigKey("Groups") \in DOMAIN cfg'.m
               /\ ObjectsOf(cfg'.m[ConfigKey("Groups")], WithID(pol["Groups"].l), KeyExtendChildren,
                            [i \in 1..Len(WithID(pol["Groups"].l)) |->
                                WithID(pol["Groups"].l)[i].ExtendChildren])]_vars

\* the array literal of the quoted identifiers a caller passes
QuotedList(l) ==
    CASE l = << <<"a">>, <<"b">> >> -> <<"[", "\"", "a", "\"", ",", "\"", "b", "\"", "]">>

\* C19: ToConfig stores a non-empty client, user or aggregated-policy list under clients,
\* users or applyPolicies as the array literal of its quoted identifiers in source order;
\* an empty list, like an absent one, of any of the five list kinds adds no key and leaves
\* an entry the Config had under that key as it was.
C19_IdentifierLists ==
    [][kop' = "ToConfig" =>
        /\ \A n \in {"Clients", "Users", "Policies"} :
               NonEmptyList(pol[n]) =>
                   /\ ConfigKey(n) \in DOMAIN cfg'.m
                   /\ cfg'.m[ConfigKey(n)] = QuotedList(pol[n].l)
        /\ \A n \in ListKinds : ~NonEmptyList(pol[n]) => Untouched(ConfigKey(n))]_vars

C19_Witness ==
    /\ kop = "ToConfig"
    /\ pol["Policies"] = SliceP(<< <<"a">>, <<"b">> >>)
    /\ pol["Groups"] = SliceP(<<>>)
    /\ cfg = Map(ConfigKey("Policies") :> <<"[", "\"", "a", "\"", ",", "\"", "b", "\"", "]">>)

\* C20: ToConfig stores every present scalar kind-specific field verbatim under its key
\* (code, groupsClaim, and the twelve time bounds), each independently of the others, and
\* for an absent one adds no key.
C20_Scalars ==
    [][kop' = "ToConfig" =>
        \A n \in ScalarKinds :
            /\ pol[n].set => ConfigKey(n) \in DOMAIN cfg'.m /\ cfg'.m[ConfigKey(n)] = pol[n].s
            /\ ~pol[n].set => Untouched(ConfigKey(n))]_vars

C20_Witness ==
    /\ kop = "ToConfig"
    /\ pol["NotBefore"] = StringP(<<"a", "\"", "\\">>)
    /\ pol["Code"] = StringP(<<>>)
    /\ cfg = Map(<<"n", "b", "f">> :> <<"a", "\"", "\\">> @@ ConfigKey("Code") :> <<>>)

-----------------------------------------------------------------------------
(* Claims about EnforcedString.UnmarshalJSON *)

QuoteByte == "\""
BackslashByte == "\\"

\* the call decoded a non-empty payload whose first byte is not a quote
DecodedUnquoted == op = "enforced" /\ Len(data) > 0 /\ data[1] # QuoteByte

\* the call decoded a payload whose first byte is a quote
DecodedQuoted == op = "enforced" /\ Len(data) > 0 /\ data[1] = QuoteByte

\* some quote of d is not directly preceded by a backslash
HasUnescapedQuote(d) ==
    \E i \in 1..Len(d) : d[i] = QuoteByte /\ (i = 1 \/ d[i - 1] # BackslashByte)

\* a payload that begins with a quote is decoded as the JSON string it is: the literal
\* of a text gives that text, and the call succeeds exactly on a well-formed string
QuotedDecodesAsJSON ==
    DecodedQuoted =>
        /\ \A t \in {<<"a">>, <<"a", QuoteByte, "b">>, <<QuoteByte>>, <<>>} :
               data = MarshalString(t) => err = NoErr /\ es = t
        /\ err = NoErr <=> (Scan(data).ok /\ Scan(data).v.kind = "string")

\* C21 as stated: every payload that does not begin with a quote and holds an unescaped
\* quote decodes without error to its own bytes, and a payload that begins with a quote
\* decodes as the JSON string it is
C21_LiteralText ==
    /\ DecodedUnquoted /\ HasUnescapedQuote(data) => err = NoErr /\ es = data
    /\ QuotedDecodesAsJSON

\* C21, amended: a payload that does not begin with a quote and holds no backslash
\* decodes without error to its own bytes; a payload that is the JSON string literal of
\* a text decodes to that text, and any other payload that begins with a quote gives
\* what decoding it as a JSON string gives
C21_LiteralTextWithoutBackslash ==
    /\ DecodedUnquoted /\ BackslashByte \notin Range(data) => err = NoErr /\ es = data
    /\ QuotedDecodesAsJSON

\* an unquoted payload with an embedded quote was decoded to itself
C21_Witness ==
    /\ DecodedUnquoted
    /\ data = <<"h", "e", "l", "l", "o", " ", QuoteByte, "w", "o", "r", "l", "d", QuoteByte>>
    /\ es = data
    /\ err = NoErr

\* the repaired form of the payload d is no JSON string
RepairedUnparsable(d) ==
    ~(Scan(ESRepair(d)).ok /\ Scan(ESRepair(d)).v.kind = "string")

\* C22: when the repaired form of an unquoted payload is no JSON string, the call
\* returns an error
C22_UnparsableRepairIsError ==
    DecodedUnquoted /\ RepairedUnparsable(data) => err \in {SyntaxError, UnmarshalTypeError}

\* a payload ending in a backslash was repaired into an unterminated string and refused
C22_Witness ==
    /\ DecodedUnquoted
    /\ data = <<"a", QuoteByte, BackslashByte>>
    /\ RepairedUnparsable(data)
    /\ err = SyntaxError

\* C27: the call returns, with a text or an error, for every payload: none makes it
\* abort
C27_NeverAborts == op = "enforced" => err # "panic"

\* C30: a decode that returns an error leaves its target as it was
C30_FailedDecodeKeepsTarget ==
    [][/\ op' = "unmarshal" /\ err' # NoErr => soa' \in {soa, NilSlice}
       /\ op' = "enforced" /\ err' \in {SyntaxError, UnmarshalTypeError} => es' = es]_vars

-----------------------------------------------------------------------------
(* Further claims about TokenOptions.FormData *)

\* the keys a secret could be projected under
SecretKeys ==
    {<<"c", "l", "i", "e", "n", "t", "_", "s", "e", "c", "r", "e", "t">>,
     <<"C", "l", "i", "e", "n", "t", "S", "e", "c", "r", "e", "t">>, <<"-">>, <<>>}

\* the mapping FormData gives for the fields f with ClientSecret replaced by v
WithSecret(f, v) ==
    MarshalToMap([type |-> "TokenOptions",
                  f |-> TokenOptionsPrepare([f EXCEPT !["ClientSecret"] = v])])

\* C28: the mapping TokenOptions.FormData returns is the one it returns for every other
\* ClientSecret, nil included, and has no key for the secret
C28_SecretIndependent ==
    [][TokenFormData =>
        /\ \A v \in ValuesOf("string") \cup {NilP} : res' = WithSecret(rec.f, v)
        /\ DOMAIN res'.m \cap SecretKeys = {}]_vars

\* FormData ran on a record whose ClientSecret is set, and returned the other entries
C28_Witness ==
    /\ pop = "FormData"
    /\ rec.type = "TokenOptions"
    /\ rec.f["ClientSecret"] = StringP(<<"a", "\"", "\\">>)
    /\ rec.f["ClientID"].set
    /\ DOMAIN res.m = {KeyResponseType, <<"c", "l", "i", "e", "n", "t", "_", "i", "d">>}

\* C29: the mapping TokenOptions.FormData returns always has response_type: the
\* space-join of ResponseTypes when that is non-empty, else the record's ResponseType when
\* that is non-empty, else token, for a nil and for an empty ResponseType alike
C29_ResponseTypeAlways ==
    [][TokenFormData =>
        /\ ~res'.isNil
        /\ KeyResponseType \in DOMAIN res'.m
        /\ res'.m[KeyResponseType] =
               IF HasElements(rec.f["ResponseTypes"]) THEN SpacedText(rec.f["ResponseTypes"].l)
               ELSE IF Explicit(rec.f["ResponseType"]) THEN rec.f["ResponseType"].s
               ELSE <<"t", "o", "k", "e", "n">>]_vars

\* FormData ran with an empty ResponseTypes and gave the default
C29_Witness ==
    /\ pop = "FormData"
    /\ rec.type = "TokenOptions"
    /\ rec.f["ResponseTypes"] = SliceP(<<>>)
    /\ res.m[KeyResponseType] = <<"t", "o", "k", "e", "n">>

-----------------------------------------------------------------------------
(* Claims about the operations' effect on their input *)

\* C23: every operation leaves the record it is given as it was: GetQueryParams, each
\* FormData and MarshalJSON change no field of the record, the scalar encoder changes
\* nothing of the value, and ToConfig changes nothing of the policy but its config
C23_OperationsArePure ==
    [][/\ pop' \in {"GetQueryParams", "FormData", "MarshalJSON"} => rec' = rec
       /\ op' = "marshal" => soa' = soa
       /\ kop' = "ToConfig" => pol' = pol]_vars

\* the mapping FormData gives for a new record holding the caller's own assignments
FromCallerValues ==
    MarshalToMap([type |-> "TokenOptions", f |-> TokenOptionsPrepare(own.f)])

\* C25: over any sequence of caller assignments and FormData calls, each TokenOptions
\* result is the one the caller's own values give at the time of the call; when the
\* caller never set Scope and Scopes is now nil or empty, the result has no scope entry
C25_ResultFromCallerValues ==
    [][TokenFormData =>
        /\ res' = FromCallerValues
        /\ ~own.f["Scope"].set /\ ~HasElements(own.f["Scopes"]) => KeyScope \notin DOMAIN res'.m]_vars

\* C26: ToConfig on a policy leaves the config seen through any other policy as it was,
\* also when both policies were given the same map
C26_OtherPolicyUntouched == [][kop' = "ToConfig" => qcfg' = qcfg]_vars

-----------------------------------------------------------------------------
(* Claims about concurrent calls *)

\* two goroutines are about to access one field, and one of the accesses is a write
Conflict(g, h) ==
    StatementWrites(pc[g], rec.f)
        \cap (StatementReads(pc[h]) \cup StatementWrites(pc[h], rec.f)) # {}

\* C24: two FormData calls may run on one record without synchronization: no state has
\* the two goroutines about to access the same field with one of them writing it, and
\* each call returns the mapping it returns when run alone on the caller's record
C24_ConcurrentCallsAreSafe ==
    /\ \A g, h \in Goroutines : g # h => ~Conflict(g, h)
    /\ \A g \in Goroutines : pc[g] = "done" => ret[g] = FromCallerValues

=============================================================================
